---- MODULE Spec2Model ----
(***************************************************************************)
(* A model of the 2D geometry primitives of muralco/geometry: Point,       *)
(* Matrix (2x3 affine transform), Aabb (axis-aligned box) and Obb          *)
(* (oriented box).                                                         *)
(*                                                                         *)
(* Numbers.  The source computes with JavaScript numbers (IEEE doubles)    *)
(* and stores Matrix coefficients in a Float32Array.  The model computes   *)
(* with exact rationals n/d extended with the three non-finite values of   *)
(* IEEE arithmetic: Infinity (1/0), -Infinity (-1/0) and NaN (0/0), with   *)
(* the IEEE rules for them (x/0, Inf-Inf, 0*Inf, comparisons with NaN).    *)
(* What the model does not represent is the rounding error of a floating-  *)
(* point operation and of a Float32Array store, nor the sign of zero: an   *)
(* equality between computed numbers in this module is the algebraic       *)
(* equality that the code reaches "within floating-point tolerance".       *)
(* The exceptions are the operations whose result is decided by a          *)
(* rounding: the normalization of angles, the rounding of boxes and        *)
(* points, the length of a vector too long for its square to be a number,  *)
(* and the hit test of an Obb at its edge; there the results are rounded   *)
(* to a number format of a few bits (section Rounding).                    *)
(* Math.cos and Math.sin are tabulated on angles whose cosine and sine are *)
(* rational (multiples of a quarter turn, and the angle of the 3-4-5       *)
(* triangle).                                                              *)
(***************************************************************************)
EXTENDS Integers, Sequences, FiniteSets, TLC

VARIABLES
    prev,     \* the Obb of the previous widget state: [size, space]
    next,     \* the Obb derived from prev by the operations in ops
    ops,      \* the operations applied to prev to reach next, in order
    chained,  \* for each sample point, its image under prev.space and then
              \* under the matrix of each operation of ops, one at a time
    third,    \* a third Obb; prev, next and third are the local frames
    point,    \* the Point handed to the first mapping operation, local to prev
    image,    \* the Point returned by the last mapping operation
    route,    \* the frames the point went through, from "prev" to the frame
              \* image is expressed in; "global" is the global space
    box,      \* an Aabb that the in-place operations mutate
    other,    \* a second Aabb, argument of union
    points,   \* the Points added to box so far, in order
    result,   \* the last operation that returned a value: its name op,
              \* its arguments args and the value returned
    heap,     \* the objects allocated so far; an object is referred to by
              \* its index, and a field that holds an object holds its index
    before    \* heap as it was before the last step

vars == <<prev, next, ops, chained, third, point, image, route,
          box, other, points, result, heap, before>>

transformVars == <<prev, next, ops, chained>>

mappingVars == <<third, point, image, route>>

aabbVars == <<box, other, points, result>>

heapVars == <<heap, before>>

----------------------------------------------------------------------------
(* JavaScript numbers: exact rationals plus Infinity, -Infinity, NaN.      *)

Sgn(i) == IF i > 0 THEN 1 ELSE IF i < 0 THEN -1 ELSE 0

Abs(i) == IF i < 0 THEN -i ELSE i

RECURSIVE GCD(_, _)
GCD(i, j) == IF j = 0 THEN i ELSE GCD(j, i % j)

\* The number n/d in lowest terms with a positive denominator; a zero
\* denominator gives Infinity, -Infinity or NaN by the sign of n.
Num(n, d) ==
    IF d = 0 THEN [n |-> Sgn(n), d |-> 0]
    ELSE LET g == GCD(Abs(n), Abs(d))
         IN  [n |-> Sgn(d) * Sgn(n) * (Abs(n) \div g), d |-> Abs(d) \div g]

Int2Num(i) == [n |-> i, d |-> 1]

Zero == Int2Num(0)

One == Int2Num(1)

Infinity == [n |-> 1, d |-> 0]

NegInfinity == [n |-> -1, d |-> 0]

NaN == [n |-> 0, d |-> 0]

IsNaN(x) == x.n = 0 /\ x.d = 0

IsFinite(x) == x.d # 0

\* -x
Neg(x) == [n |-> -(x.n), d |-> x.d]

\* x + y
Add(x, y) ==
    IF IsNaN(x) \/ IsNaN(y) THEN NaN
    ELSE IF ~IsFinite(x) /\ ~IsFinite(y) THEN (IF x = y THEN x ELSE NaN)
    ELSE IF ~IsFinite(x) THEN x
    ELSE IF ~IsFinite(y) THEN y
    ELSE LET g == GCD(x.d, y.d)
         IN  Num(x.n * (y.d \div g) + y.n * (x.d \div g), (x.d \div g) * y.d)

\* x - y
Sub(x, y) == Add(x, Neg(y))

\* x * y
Mul(x, y) ==
    IF ~IsFinite(x) \/ ~IsFinite(y) THEN Num(x.n * y.n, 0)
    ELSE LET g1 == GCD(Abs(x.n), y.d)
             g2 == GCD(Abs(y.n), x.d)
         IN  Num((x.n \div g1) * (y.n \div g2), (x.d \div g2) * (y.d \div g1))

\* x / y, with x/0 = +-Infinity and 0/0 = NaN
Div(x, y) == Mul(x, Num(y.d, y.n))

\* x === y
Eq(x, y) == ~IsNaN(x) /\ ~IsNaN(y) /\ x = y

\* x < y
Lt(x, y) ==
    /\ ~IsNaN(x)
    /\ ~IsNaN(y)
    /\ IF ~IsFinite(x) /\ ~IsFinite(y) THEN x.n < y.n
       ELSE IF ~IsFinite(x) THEN x.n < 0
       ELSE IF ~IsFinite(y) THEN y.n > 0
       ELSE x.n * y.d < y.n * x.d

\* x <= y
Le(x, y) == Eq(x, y) \/ Lt(x, y)

\* x > y
Gt(x, y) == Lt(y, x)

\* x >= y
Ge(x, y) == Le(y, x)

\* Math.min(x, y)
Min(x, y) == IF IsNaN(x) \/ IsNaN(y) THEN NaN ELSE IF Lt(y, x) THEN y ELSE x

\* Math.max(x, y)
Max(x, y) == IF IsNaN(x) \/ IsNaN(y) THEN NaN ELSE IF Lt(x, y) THEN y ELSE x

\* Math.round(x): the integer nearest to x, halves rounded up
Round(x) == IF ~IsFinite(x) THEN x ELSE Int2Num((2 * x.n + x.d) \div (2 * x.d))

\* Math.floor(x)
Floor(x) == IF ~IsFinite(x) THEN x ELSE Int2Num(x.n \div x.d)

\* Math.ceil(x)
Ceil(x) == Neg(Floor(Neg(x)))

RECURSIVE RootFrom(_, _)
\* The largest natural whose square is at most i, searched downwards from k.
RootFrom(i, k) ==
    LET closer == (k + i \div k) \div 2
    IN  IF closer >= k THEN k ELSE RootFrom(i, closer)

\* The largest natural whose square is at most i.
Root(i) == IF i = 0 THEN 0 ELSE RootFrom(i, i)

\* The numbers whose square root is a fraction.
IsSquare(x) ==
    IsFinite(x) /\ x.n >= 0 /\ Root(x.n) * Root(x.n) = x.n /\ Root(x.d) * Root(x.d) = x.d

\* Math.sqrt(x), for the x whose root is a fraction and for Infinity and NaN
Sqrt(x) ==
    IF IsNaN(x) \/ Lt(x, Zero) THEN NaN
    ELSE IF ~IsFinite(x) THEN Infinity
    ELSE Num(Root(x.n), Root(x.d))

\* Number of decimal places to round to by default.
DEFAULT_PRECISION == 2

RECURSIVE Pow10(_)
\* 10 ** k for a natural k
Pow10(k) == IF k = 0 THEN One ELSE Mul(Int2Num(10), Pow10(k - 1))

----------------------------------------------------------------------------
(* Rounding.  A double holds 53 significant bits, so an addition returns   *)
(* the representable number nearest to the exact sum.  Where this decides  *)
(* a result (the angles below), the sum is rounded to SignificandBits      *)
(* significant bits, ties to even; the exponent is not bounded.            *)

SignificandBits == 8

RECURSIVE Pow2(_)
\* 2 ** k for a natural k
Pow2(k) == IF k = 0 THEN One ELSE Mul(Int2Num(2), Pow2(k - 1))

\* The integer nearest to a finite x, ties to the even one.
RoundHalfEven(x) ==
    LET below == Floor(x)
        rest == Sub(x, below)
    IN  IF Lt(rest, Num(1, 2)) THEN below
        ELSE IF Gt(rest, Num(1, 2)) THEN Add(below, One)
        ELSE IF below.n % 2 = 0 THEN below ELSE Add(below, One)

RECURSIVE NearestAbove(_)
\* The representable number nearest to a finite x > 0.
NearestAbove(x) ==
    IF Ge(x, Pow2(SignificandBits)) THEN Mul(Int2Num(2), NearestAbove(Div(x, Int2Num(2))))
    ELSE IF Lt(x, Pow2(SignificandBits - 1)) THEN Div(NearestAbove(Mul(x, Int2Num(2))), Int2Num(2))
    ELSE RoundHalfEven(x)

\* The number an arithmetic operation returns when its exact result is x.
Nearest(x) ==
    IF ~IsFinite(x) \/ Eq(x, Zero) THEN x
    ELSE IF Lt(x, Zero) THEN Neg(NearestAbove(Neg(x)))
    ELSE NearestAbove(x)

\* The exponent is bounded where this decides a result (the length of a
\* vector below): a result of magnitude 2 ** MaxExponent or more, the
\* counterpart of 2 ** 1024, is Infinity or -Infinity.
MaxExponent == 12

\* The number an arithmetic operation returns when its exact result is x,
\* as far as its magnitude goes.
Overflowing(x) ==
    IF ~IsFinite(x) THEN x
    ELSE IF Ge(Floor(x), Pow2(MaxExponent)) THEN Infinity
    ELSE IF Le(Ceil(x), Neg(Pow2(MaxExponent))) THEN NegInfinity
    ELSE x

\* A Float32Array element holds 24 significant bits, so a coefficient of a
\* new Matrix is the number of that precision nearest to the number stored.
\* Where this decides a result (a hit test at the edge of a box), a
\* coefficient is rounded to SingleBits significant bits, ties to even.
SingleBits == 5

RECURSIVE SingleAbove(_)
\* The number of single precision nearest to a finite x > 0.
SingleAbove(x) ==
    IF Ge(x, Pow2(SingleBits)) THEN Mul(Int2Num(2), SingleAbove(Div(x, Int2Num(2))))
    ELSE IF Lt(x, Pow2(SingleBits - 1)) THEN Div(SingleAbove(Mul(x, Int2Num(2))), Int2Num(2))
    ELSE RoundHalfEven(x)

\* The number read from a Float32Array element in which x was stored.
Single(x) ==
    IF ~IsFinite(x) \/ Eq(x, Zero) THEN x
    ELSE IF Lt(x, Zero) THEN Neg(SingleAbove(Neg(x)))
    ELSE SingleAbove(x)

\* x % y: the remainder of the division truncated towards zero, which has
\* the sign of x and is exact
Rem(x, y) ==
    IF ~IsFinite(x) \/ IsNaN(y) \/ Eq(y, Zero) THEN NaN
    ELSE IF ~IsFinite(y) THEN x
    ELSE LET q == Div(x, y)
             whole == IF Lt(q, Zero) THEN Ceil(q) ELSE Floor(q)
         IN  Sub(x, Mul(whole, y))

----------------------------------------------------------------------------
(* Point                                                                   *)

Pt(x, y) == [x |-> x, y |-> y]

PointZero == Pt(Zero, Zero)

PointEquals(a, b) == Eq(a.x, b.x) /\ Eq(a.y, b.y)

\* Point.scale(p, sx, sy)
PointScale(p, sx, sy) == Pt(Mul(p.x, sx), Mul(p.y, sy))

\* Point.lengthSquared
lengthSquared(p) ==
    Overflowing(Add(Overflowing(Mul(p.x, p.x)), Overflowing(Mul(p.y, p.y))))

\* Threshold under which a length counts as zero.
EPSILON == Num(1, 100000)

\* x > e * e for a finite x >= 0 and e = 1 / k, without the number k * k
GreaterThanSquare(x, e) ==
    IF ~IsFinite(x) THEN Gt(x, Zero)
    ELSE x.n * e.d > x.d \div e.d

\* Point.isNonZero: lengthSquared(point) > EPSILON * EPSILON
isNonZero(p) == GreaterThanSquare(lengthSquared(p), EPSILON)

\* Point.length
length(p) == Sqrt(lengthSquared(p))

\* Point.add
PointAdd(a, b) == Pt(Add(a.x, b.x), Add(a.y, b.y))

\* Point.sub
PointSub(a, b) == Pt(Sub(a.x, b.x), Sub(a.y, b.y))

\* Point.mul: component-wise
PointMul(a, b) == Pt(Mul(a.x, b.x), Mul(a.y, b.y))

\* Point.div: component-wise
PointDiv(a, b) == Pt(Div(a.x, b.x), Div(a.y, b.y))

\* Point.neg
PointNeg(p) == Pt(Neg(p.x), Neg(p.y))

\* Point.normalize
normalize(p) == PointScale(p, Div(One, length(p)), Div(One, length(p)))

\* Point.lerp
lerp(a, b, t) ==
    Pt(Add(a.x, Mul(Sub(b.x, a.x), t)), Add(a.y, Mul(Sub(b.y, a.y), t)))

\* Point.round
PointRound(p, precision) ==
    LET m == Pow10(precision)
        im == Nearest(Div(One, m))
    IN  Pt(Nearest(Mul(Round(Nearest(Mul(p.x, m))), im)),
           Nearest(Mul(Round(Nearest(Mul(p.y, m))), im)))

----------------------------------------------------------------------------
(* Angles whose cosine and sine are rational.  "alpha" is the angle of    *)
(* the 3-4-5 triangle (cos 3/5, sin 4/5); "full" is one full turn, 2*pi.   *)

Angles == {"zero", "alpha", "quarter", "half", "threequarters", "full"}

\* angle === 0
AngleIsZero(t) == t = "zero"

\* Math.cos(angle)
Cos(t) ==
    CASE t = "zero" -> One
      [] t = "alpha" -> Num(3, 5)
      [] t = "quarter" -> Zero
      [] t = "half" -> Int2Num(-1)
      [] t = "threequarters" -> Zero
      [] t = "full" -> One

\* Math.sin(angle)
Sin(t) ==
    CASE t = "zero" -> Zero
      [] t = "alpha" -> Num(4, 5)
      [] t = "quarter" -> One
      [] t = "half" -> Zero
      [] t = "threequarters" -> Int2Num(-1)
      [] t = "full" -> Zero

----------------------------------------------------------------------------
(* Angles as numbers: Radians and Degrees.                                 *)

\* Math.PI: the representable number nearest to pi
PI == Nearest(Num(355, 113))

\* Radians.fromDegrees
fromDegrees(degrees) == Nearest(Mul(degrees, Nearest(Div(PI, Int2Num(180)))))

\* Radians.normalize
RadiansNormalize(angle) ==
    LET a == Rem(angle, Nearest(Mul(Int2Num(2), PI)))
    IN  IF Ge(a, Zero) THEN a ELSE Nearest(Add(a, Nearest(Mul(Int2Num(2), PI))))

\* Radians.add
RadiansAdd(a, b) == RadiansNormalize(Nearest(Add(a, b)))

\* Radians.sub
RadiansSub(a, b) == RadiansNormalize(Nearest(Sub(a, b)))

\* Degrees.normalize
DegreesNormalize(angle) ==
    LET a == Rem(angle, Int2Num(360))
    IN  IF Ge(a, Zero) THEN a ELSE Nearest(Add(a, Int2Num(360)))

\* Degrees.add
DegreesAdd(a, b) == DegreesNormalize(Nearest(Add(a, b)))

\* Degrees.sub
DegreesSub(a, b) == DegreesNormalize(Nearest(Sub(a, b)))

----------------------------------------------------------------------------

(* Matrix: the coefficients a, b, c, d, e, f are data[0..5] of the source. *)

Matrix(a, b, c, d, e, f) == [a |-> a, b |-> b, c |-> c, d |-> d, e |-> e, f |-> f]

\* Matrix.identity()
identity == Matrix(One, Zero, Zero, One, Zero, Zero)

\* Matrix.translation({x, y})
translation(p) == Matrix(One, Zero, Zero, One, p.x, p.y)

\* Matrix.rotation(angle)
rotation(t) == Matrix(Cos(t), Sin(t), Neg(Sin(t)), Cos(t), Zero, Zero)

\* Matrix.scaling(factor), factor a Point
scaling(k) == Matrix(k.x, Zero, Zero, k.y, Zero, Zero)

\* m.transform({x, y})
transform(m, p) ==
    Pt(Add(Add(Mul(m.a, p.x), Mul(m.c, p.y)), m.e),
       Add(Add(Mul(m.b, p.x), Mul(m.d, p.y)), m.f))

\* m1.multiply(m2)
multiply(m1, m2) ==
    Matrix(Add(Mul(m1.a, m2.a), Mul(m1.c, m2.b)),
           Add(Mul(m1.b, m2.a), Mul(m1.d, m2.b)),
           Add(Mul(m1.a, m2.c), Mul(m1.c, m2.d)),
           Add(Mul(m1.b, m2.c), Mul(m1.d, m2.d)),
           Add(Add(Mul(m1.a, m2.e), Mul(m1.c, m2.f)), m1.e),
           Add(Add(Mul(m1.b, m2.e), Mul(m1.d, m2.f)), m1.f))

\* then with the operands of the product exchanged
then_Exchanged(m, matrix) == multiply(m, matrix)

\* m.then(matrix)
then(m, matrix) == multiply(matrix, m)

\* m.rotate(angle)
rotate(m, t) == IF AngleIsZero(t) THEN m ELSE then(m, rotation(t))

\* translate that moves along the axes of m: m.multiply(translation(delta))
translate_AlongOwnAxes(m, delta) ==
    IF Eq(delta.x, Zero) /\ Eq(delta.y, Zero) THEN m
    ELSE [m EXCEPT !.e = Add(Add(Mul(m.a, delta.x), Mul(m.c, delta.y)), m.e),
                   !.f = Add(Add(Mul(m.b, delta.x), Mul(m.d, delta.y)), m.f)]

\* m.translate(delta)
translate(m, delta) ==
    IF Eq(delta.x, Zero) /\ Eq(delta.y, Zero) THEN m
    ELSE [m EXCEPT !.e = Add(m.e, delta.x), !.f = Add(m.f, delta.y)]

\* m.scale(sx, sy), the factor given as the Point {x: sx, y: sy}
scale(m, k) == IF PointEquals(k, Pt(One, One)) THEN m ELSE then(m, scaling(k))

\* rotateAround that does not move the pivot back
rotateAround_PivotNotRestored(m, t, pivot) ==
    IF AngleIsZero(t) THEN m
    ELSE IF PointEquals(pivot, PointZero) THEN rotate(m, t)
    ELSE then(then(m, translation(PointScale(pivot, Int2Num(-1), Int2Num(-1)))),
              rotation(t))

\* m.rotateAround(angle, pivot)
rotateAround(m, t, pivot) ==
    IF AngleIsZero(t) THEN m
    ELSE IF PointEquals(pivot, PointZero) THEN rotate(m, t)
    ELSE then(then(then(m, translation(PointScale(pivot, Int2Num(-1), Int2Num(-1)))),
                   rotation(t)),
              translation(pivot))

\* m.scaleAround(factor, pivot), the factor given as a Point
scaleAround(m, k, pivot) ==
    IF PointEquals(k, Pt(One, One)) THEN m
    ELSE IF PointEquals(pivot, PointZero) THEN scale(m, k)
    ELSE then(then(then(m, translation(PointScale(pivot, Int2Num(-1), Int2Num(-1)))),
                   scaling(k)),
              translation(pivot))

\* m.det()
det(m) == Sub(Mul(m.a, m.d), Mul(m.b, m.c))

\* inverse whose translation row is not negated: (d*e - c*f, a*f - b*e)
inverse_TranslationSign(m) ==
    LET idet == Div(One, Sub(Mul(m.a, m.d), Mul(m.b, m.c)))
    IN  Matrix(Mul(m.d, idet),
               Mul(Neg(m.b), idet),
               Mul(Neg(m.c), idet),
               Mul(m.a, idet),
               Mul(Sub(Mul(m.d, m.e), Mul(m.c, m.f)), idet),
               Mul(Sub(Mul(m.a, m.f), Mul(m.b, m.e)), idet))

\* inverse that answers the identity for a matrix of determinant 0
inverse_IdentityWhenSingular(m) ==
    LET idet == Div(One, Sub(Mul(m.a, m.d), Mul(m.b, m.c)))
    IN  IF Eq(Sub(Mul(m.a, m.d), Mul(m.b, m.c)), Zero) THEN identity
        ELSE Matrix(Mul(m.d, idet),
                    Mul(Neg(m.b), idet),
                    Mul(Neg(m.c), idet),
                    Mul(m.a, idet),
                    Mul(Sub(Mul(m.c, m.f), Mul(m.d, m.e)), idet),
                    Mul(Sub(Mul(m.b, m.e), Mul(m.a, m.f)), idet))

\* m.inverse()
inverse(m) ==
    LET idet == Div(One, det(m))
    IN  Matrix(Mul(m.d, idet),
               Mul(Neg(m.b), idet),
               Mul(Neg(m.c), idet),
               Mul(m.a, idet),
               Mul(Sub(Mul(m.c, m.f), Mul(m.d, m.e)), idet),
               Mul(Sub(Mul(m.b, m.e), Mul(m.a, m.f)), idet))

\* new Matrix(new Float32Array([a, b, c, d, e, f])): what the matrix holds
Float32Array(m) ==
    Matrix(Single(m.a), Single(m.b), Single(m.c), Single(m.d), Single(m.e), Single(m.f))

\* m.inverse(), as held by the Float32Array of the new Matrix
inverseStored(m) == Float32Array(inverse(m))

TRANSFORM_DETECTION_PRECISION == 4

\* Math.round(x * multiplier) !== 0
RoundsToNonZero(x, multiplier) == ~Eq(Round(Mul(x, multiplier)), Zero)

\* Text is a sequence of characters.
Digit(i) == <<"0", "1", "2", "3", "4", "5", "6", "7", "8", "9">>[i + 1]

RECURSIVE Digits(_)
\* The decimal digits of a natural number.
Digits(i) == IF i < 10 THEN <<Digit(i)>> ELSE Append(Digits(i \div 10), Digit(i % 10))

RECURSIVE FractionDigits(_)
\* The decimal digits after the point of x, 0 < x < 1, for an x that has
\* finitely many.
FractionDigits(x) ==
    LET shifted == Mul(x, Int2Num(10))
        whole == Floor(shifted)
    IN  <<Digit(whole.n)>> \o
            (IF Eq(shifted, whole) THEN <<>> ELSE FractionDigits(Sub(shifted, whole)))

\* `${x}` for x >= 0 finite, under 1e21 and with a finite decimal expansion
UnsignedToString(x) ==
    IF Eq(x, Floor(x)) THEN Digits(x.n)
    ELSE Digits(Floor(x).n) \o <<".">> \o FractionDigits(Sub(x, Floor(x)))

\* `${x}`: the text of a number in a template literal
NumberToString(x) ==
    IF IsNaN(x) THEN <<"N", "a", "N">>
    ELSE IF x = Infinity THEN <<"I", "n", "f", "i", "n", "i", "t", "y">>
    ELSE IF x = NegInfinity THEN <<"-", "I", "n", "f", "i", "n", "i", "t", "y">>
    ELSE IF Lt(x, Zero) THEN <<"-">> \o UnsignedToString(Neg(x))
    ELSE UnsignedToString(x)

\* toCss in the order of toString: a, c, e, b, d, f
toCss_ByRows(m) ==
    <<"m", "a", "t", "r", "i", "x", "(">> \o
    NumberToString(m.a) \o <<",", " ">> \o NumberToString(m.c) \o <<",", " ">> \o
    NumberToString(m.e) \o <<",", " ">> \o NumberToString(m.b) \o <<",", " ">> \o
    NumberToString(m.d) \o <<",", " ">> \o NumberToString(m.f) \o <<")">>

\* m.toCss(): `matrix(${a}, ${b}, ${c}, ${d}, ${e}, ${f})`
toCss(m) ==
    <<"m", "a", "t", "r", "i", "x", "(">> \o
    NumberToString(m.a) \o <<",", " ">> \o NumberToString(m.b) \o <<",", " ">> \o
    NumberToString(m.c) \o <<",", " ">> \o NumberToString(m.d) \o <<",", " ">> \o
    NumberToString(m.e) \o <<",", " ">> \o NumberToString(m.f) \o <<")">>

\* isTranslationOf comparing all six coefficients, as equals does
isTranslationOf_AllSix(m0, m1) ==
    /\ Eq(m0.a, m1.a) /\ Eq(m0.b, m1.b) /\ Eq(m0.c, m1.c)
    /\ Eq(m0.d, m1.d) /\ Eq(m0.e, m1.e) /\ Eq(m0.f, m1.f)

\* m0.isTranslationOf(m1)
isTranslationOf(m0, m1) ==
    Eq(m0.a, m1.a) /\ Eq(m0.b, m1.b) /\ Eq(m0.c, m1.c) /\ Eq(m0.d, m1.d)

\* m0.hasTranslation(m1), precision defaulted
hasTranslation(m0, m1) ==
    LET multiplier == Pow10(TRANSFORM_DETECTION_PRECISION)
    IN  \/ RoundsToNonZero(Sub(m0.e, m1.e), multiplier)
        \/ RoundsToNonZero(Sub(m0.f, m1.f), multiplier)

\* hasRotation reading the pairs (a, b) and (c, d) instead of (a, c), (b, d)
hasRotation_Columns(m0, m1) ==
    IF Eq(m0.a, m1.a) /\ Eq(m0.b, m1.b) /\ Eq(m0.c, m1.c) /\ Eq(m0.d, m1.d)
    THEN FALSE
    ELSE LET tanX == Div(Sub(Mul(m0.a, m1.b), Mul(m0.b, m1.a)),
                         Add(Mul(m0.a, m1.a), Mul(m0.b, m1.b)))
             tanY == Div(Sub(Mul(m0.c, m1.d), Mul(m0.d, m1.c)),
                         Add(Mul(m0.c, m1.c), Mul(m0.d, m1.d)))
             multiplier == Pow10(TRANSFORM_DETECTION_PRECISION)
         IN  \/ ~Eq(Round(Mul(tanX, multiplier)), Zero)
             \/ ~Eq(Round(Mul(tanY, multiplier)), Zero)

\* m0.hasRotation(m1), precision defaulted
hasRotation(m0, m1) ==
    IF isTranslationOf(m0, m1) THEN FALSE
    ELSE LET tanX == Div(Sub(Mul(m0.a, m1.c), Mul(m0.c, m1.a)),
                         Add(Mul(m0.a, m1.a), Mul(m0.c, m1.c)))
             tanY == Div(Sub(Mul(m0.b, m1.d), Mul(m0.d, m1.b)),
                         Add(Mul(m0.b, m1.b), Mul(m0.d, m1.d)))
             multiplier == Pow10(TRANSFORM_DETECTION_PRECISION)
         IN  RoundsToNonZero(tanX, multiplier) \/ RoundsToNonZero(tanY, multiplier)

\* m0.hasScaling(m1), precision defaulted
hasScaling(m0, m1) ==
    LET scaleX == Div(Add(Mul(m0.a, m0.a), Mul(m0.c, m0.c)),
                      Add(Mul(m1.a, m1.a), Mul(m1.c, m1.c)))
        scaleY == Div(Add(Mul(m0.b, m0.b), Mul(m0.d, m0.d)),
                      Add(Mul(m1.b, m1.b), Mul(m1.d, m1.d)))
        multiplier == Pow10(TRANSFORM_DETECTION_PRECISION)
    IN  \/ RoundsToNonZero(Sub(One, scaleX), multiplier)
        \/ RoundsToNonZero(Sub(One, scaleY), multiplier)

----------------------------------------------------------------------------
(* Obb: a size and the Matrix from its local space to the global space.    *)

Size(width, height) == [width |-> width, height |-> height]

Obb(size, space) == [size |-> size, space |-> space]

\* Obb.root()
root == Obb(Size(Zero, Zero), identity)

\* obb.mapToGlobal(localPoint)
mapToGlobal(obb, localPoint) == transform(obb.space, localPoint)

\* obb.mapToLocal(globalPoint)
mapToLocal(obb, globalPoint) == transform(inverse(obb.space), globalPoint)

\* mapTo with the two frames exchanged
mapTo_Exchanged(obb, to, p) == transform(inverse(obb.space), transform(to.space, p))

\* obb.mapTo(to, point)
mapTo(obb, to, p) == mapToLocal(to, mapToGlobal(obb, p))

\* obb.translate(delta)
ObbTranslate(obb, delta) == Obb(obb.size, translate(obb.space, delta))

\* Obb.isTranslationOf that leaves the size out
ObbIsTranslationOf_SpaceOnly(obb, o) ==
    /\ Eq(obb.space.a, o.space.a) /\ Eq(obb.space.b, o.space.b)
    /\ Eq(obb.space.c, o.space.c) /\ Eq(obb.space.d, o.space.d)

\* obb.isTranslationOf(other)
ObbIsTranslationOf(obb, o) ==
    /\ isTranslationOf(obb.space, o.space)
    /\ Eq(obb.size.width, o.size.width)
    /\ Eq(obb.size.height, o.size.height)

\* obb.hasTranslation(other)
ObbHasTranslation(obb, o) == hasTranslation(obb.space, o.space)

\* obb.hasRotation(other)
ObbHasRotation(obb, o) == hasRotation(obb.space, o.space)

\* obb.hasScaling(other)
ObbHasScaling(obb, o) ==
    \/ ~Eq(obb.size.width, o.size.width)
    \/ ~Eq(obb.size.height, o.size.height)
    \/ hasScaling(obb.space, o.space)

----------------------------------------------------------------------------
(* Aabb: minX, minY, maxX, maxY.                                           *)

Aabb(minX, minY, maxX, maxY) ==
    [minX |-> minX, minY |-> minY, maxX |-> maxX, maxY |-> maxY]

\* Aabb.empty()
AabbEmpty == Aabb(Infinity, Infinity, NegInfinity, NegInfinity)

\* Aabb.fromLtrb(left, top, right, bottom)
fromLtrb(left, top, right, bottom) == Aabb(left, top, right, bottom)

\* Aabb.fromLtwh(left, top, width, height)
fromLtwh(left, top, width, height) ==
    Aabb(left, top, Add(left, width), Add(top, height))

\* Aabb.fromRect({height, left, top, width})
fromRect(rect) ==
    Aabb(rect.left, rect.top, Add(rect.left, rect.width), Add(rect.top, rect.height))

\* Aabb.fromPoint({x, y})
fromPoint(p) == Aabb(p.x, p.y, p.x, p.y)

\* aabb.clone()
clone(aabb) == Aabb(aabb.minX, aabb.minY, aabb.maxX, aabb.maxY)

\* aabb.isEmpty()
isEmpty(aabb) == Ge(aabb.minX, aabb.maxX) \/ Ge(aabb.minY, aabb.maxY)

\* aabb.isValid()
isValid(aabb) == Le(aabb.minX, aabb.maxX) /\ Le(aabb.minY, aabb.maxY)

\* addPoint taking the maximum for the mins and the minimum for the maxes
addPoint_MinMaxExchanged(aabb, p) ==
    Aabb(Max(aabb.minX, p.x), Max(aabb.minY, p.y),
         Min(aabb.maxX, p.x), Min(aabb.maxY, p.y))

\* aabb.addPoint({x, y}): a new Aabb
addPoint(aabb, p) ==
    Aabb(Min(aabb.minX, p.x), Min(aabb.minY, p.y),
         Max(aabb.maxX, p.x), Max(aabb.maxY, p.y))

\* aabb.addXYInPlace(x, y): the receiver after the call
addXYInPlace(aabb, x, y) ==
    [aabb EXCEPT !.minX = Min(aabb.minX, x),
                 !.minY = Min(aabb.minY, y),
                 !.maxX = Max(aabb.maxX, x),
                 !.maxY = Max(aabb.maxY, y)]

\* aabb.addPointInPlace({x, y}): the receiver after the call
addPointInPlace(aabb, p) == addXYInPlace(aabb, p.x, p.y)

RECURSIVE fromPointsFrom(_, _)
\* The loop of Aabb.fromPoints: result after the points of ps are added.
fromPointsFrom(acc, ps) ==
    IF ps = <<>> THEN acc
    ELSE fromPointsFrom(addPointInPlace(acc, Head(ps)), Tail(ps))

\* Aabb.fromPoints(points)
fromPoints(ps) == fromPointsFrom(AabbEmpty, ps)

\* unionInPlace that keeps the receiver's maxes
unionInPlace_MinsOnly(aabb, o) ==
    [aabb EXCEPT !.minX = Min(aabb.minX, o.minX),
                 !.minY = Min(aabb.minY, o.minY)]

\* aabb.unionInPlace(other): the receiver after the call
unionInPlace(aabb, o) ==
    [aabb EXCEPT !.minX = Min(aabb.minX, o.minX),
                 !.minY = Min(aabb.minY, o.minY),
                 !.maxX = Max(aabb.maxX, o.maxX),
                 !.maxY = Max(aabb.maxY, o.maxY)]

RECURSIVE unionFrom(_, _)
\* The reduce of Aabb.union: acc after the boxes of aabbs are united into it.
unionFrom(acc, aabbs) ==
    IF aabbs = <<>> THEN acc
    ELSE unionFrom(unionInPlace(acc, Head(aabbs)), Tail(aabbs))

\* Aabb.union(...aabbs)
AabbUnion(aabbs) == unionFrom(AabbEmpty, aabbs)

\* aabb.union(other)
union(aabb, o) == unionInPlace(clone(aabb), o)

\* parent.includes(child)
includes(parent, child) ==
    /\ Ge(parent.maxX, child.maxX)
    /\ Ge(parent.maxY, child.maxY)
    /\ Le(parent.minX, child.minX)
    /\ Le(parent.minY, child.minY)

\* aabb.equals(other), in the way of a comparison of coordinates only
AabbEquals_CoordinatesOnly(aabb, o) ==
    /\ Eq(aabb.maxX, o.maxX)
    /\ Eq(aabb.maxY, o.maxY)
    /\ Eq(aabb.minX, o.minX)
    /\ Eq(aabb.minY, o.minY)

\* aabb.equals(other)
AabbEquals(aabb, o) ==
    \/ ~isValid(aabb) /\ ~isValid(o)
    \/ /\ Eq(aabb.maxX, o.maxX)
       /\ Eq(aabb.maxY, o.maxY)
       /\ Eq(aabb.minX, o.minX)
       /\ Eq(aabb.minY, o.minY)

\* aabb.intersects(other)
intersects(aabb, o) ==
    /\ Le(aabb.minX, o.maxX)
    /\ Ge(aabb.maxX, o.minX)
    /\ Le(aabb.minY, o.maxY)
    /\ Ge(aabb.maxY, o.minY)

\* intersectionInPlace taking the least min and the greatest max
intersectionInPlace_MinMaxExchanged(aabb, o) ==
    [aabb EXCEPT !.minX = Min(aabb.minX, o.minX),
                 !.minY = Min(aabb.minY, o.minY),
                 !.maxX = Max(aabb.maxX, o.maxX),
                 !.maxY = Max(aabb.maxY, o.maxY)]

\* aabb.intersectionInPlace(other): the receiver after the call
intersectionInPlace(aabb, o) ==
    [aabb EXCEPT !.minX = Max(aabb.minX, o.minX),
                 !.minY = Max(aabb.minY, o.minY),
                 !.maxX = Min(aabb.maxX, o.maxX),
                 !.maxY = Min(aabb.maxY, o.maxY)]

RECURSIVE intersectionFrom(_, _)
\* The loop of Aabb.intersection: acc after it is intersected with aabbs.
intersectionFrom(acc, aabbs) ==
    IF aabbs = <<>> THEN acc
    ELSE intersectionFrom(intersectionInPlace(acc, Head(aabbs)), Tail(aabbs))

\* Aabb.intersection(...aabbs)
AabbIntersection(aabbs) ==
    IF Len(aabbs) = 0 THEN AabbEmpty
    ELSE intersectionFrom(clone(aabbs[1]), Tail(aabbs))

\* aabb.intersection(other)
intersection(aabb, o) == intersectionInPlace(clone(aabb), o)

\* The corners of aabb in the order transform lists them.
AabbCorners(aabb) ==
    << Pt(aabb.minX, aabb.minY), Pt(aabb.maxX, aabb.minY),
       Pt(aabb.minX, aabb.maxY), Pt(aabb.maxX, aabb.maxY) >>

\* transform that takes only the two corners (minX, minY), (maxX, maxY)
AabbTransform_TwoCorners(aabb, matrix) ==
    fromPoints(<< transform(matrix, Pt(aabb.minX, aabb.minY)),
                  transform(matrix, Pt(aabb.maxX, aabb.maxY)) >>)

\* aabb.transform(matrix)
AabbTransform(aabb, matrix) ==
    fromPoints([i \in 1..4 |-> transform(matrix, AabbCorners(aabb)[i])])

\* Math.floor(x * multiplier) * demultiplier, each product rounded
RoundDown(x, multiplier, demultiplier) ==
    Nearest(Mul(Floor(Nearest(Mul(x, multiplier))), demultiplier))

\* Math.ceil(x * multiplier) * demultiplier, each product rounded
RoundUp(x, multiplier, demultiplier) ==
    Nearest(Mul(Ceil(Nearest(Mul(x, multiplier))), demultiplier))

\* aabb.round(precision): mins rounded down and maxes rounded up
AabbRound(aabb, precision) ==
    LET multiplier == Pow10(precision)
        demultiplier == Nearest(Div(One, multiplier))
    IN  Aabb(RoundDown(aabb.minX, multiplier, demultiplier),
             RoundDown(aabb.minY, multiplier, demultiplier),
             RoundUp(aabb.maxX, multiplier, demultiplier),
             RoundUp(aabb.maxY, multiplier, demultiplier))

\* aabb.translate(delta)
AabbTranslate(aabb, delta) ==
    Aabb(Add(aabb.minX, delta.x), Add(aabb.minY, delta.y),
         Add(aabb.maxX, delta.x), Add(aabb.maxY, delta.y))

\* aabb.scale(factor, origin)
AabbScale(aabb, factor, origin) ==
    Aabb(Add(Mul(Sub(aabb.minX, origin.x), factor), origin.x),
         Add(Mul(Sub(aabb.minY, origin.y), factor), origin.y),
         Add(Mul(Sub(aabb.maxX, origin.x), factor), origin.x),
         Add(Mul(Sub(aabb.maxY, origin.y), factor), origin.y))

\* expand that moves the sides inwards
AabbExpand_Inwards(aabb, amount) ==
    Aabb(Add(aabb.minX, amount), Add(aabb.minY, amount),
         Sub(aabb.maxX, amount), Sub(aabb.maxY, amount))

\* aabb.expand(amount)
AabbExpand(aabb, amount) ==
    Aabb(Sub(aabb.minX, amount), Sub(aabb.minY, amount),
         Add(aabb.maxX, amount), Add(aabb.maxY, amount))

\* aabb.shrink(amount)
AabbShrink(aabb, amount) == AabbExpand(aabb, Neg(amount))

\* aabb.width: Math.max(0, this.maxX - this.minX)
AabbWidth(aabb) == Max(Zero, Sub(aabb.maxX, aabb.minX))

\* aabb.height: Math.max(0, this.maxY - this.minY)
AabbHeight(aabb) == Max(Zero, Sub(aabb.maxY, aabb.minY))

\* aabb.pointAt({x, y}): the point at the normalized coordinates (x, y)
pointAt(aabb, p) ==
    Pt(Add(aabb.minX, Mul(Sub(aabb.maxX, aabb.minX), p.x)),
       Add(aabb.minY, Mul(Sub(aabb.maxY, aabb.minY), p.y)))

----------------------------------------------------------------------------
(* Obb: the operations that test, pad and scale a box.                      *)

\* includesPoint with the boundary left out
ObbIncludesPoint_Exclusive(obb, p) ==
    LET localPoint == transform(inverse(obb.space), p)
    IN  /\ Gt(localPoint.x, Zero)
        /\ Lt(localPoint.x, obb.size.width)
        /\ Gt(localPoint.y, Zero)
        /\ Lt(localPoint.y, obb.size.height)

\* obb.includesPoint(point), point in global coordinates
ObbIncludesPoint(obb, p) ==
    LET localPoint == mapToLocal(obb, p)
    IN  /\ Ge(localPoint.x, Zero)
        /\ Le(localPoint.x, obb.size.width)
        /\ Ge(localPoint.y, Zero)
        /\ Le(localPoint.y, obb.size.height)

\* obb.includesPoint(point), the inverse of the space as it is stored
ObbIncludesPointStored(obb, p) ==
    LET localPoint == transform(inverseStored(obb.space), p)
    IN  /\ Ge(localPoint.x, Zero)
        /\ Le(localPoint.x, obb.size.width)
        /\ Ge(localPoint.y, Zero)
        /\ Le(localPoint.y, obb.size.height)

\* expand that pads the size and leaves the space where it is
ObbExpand_SpaceKept(obb, padding) ==
    Obb(Size(Add(obb.size.width, Mul(padding, Int2Num(2))),
             Add(obb.size.height, Mul(padding, Int2Num(2)))),
        obb.space)

\* obb.expand(padding)
ObbExpand(obb, padding) ==
    LET origin == transform(obb.space, Pt(Zero, Zero))
        target == transform(obb.space, Pt(Neg(padding), Neg(padding)))
        delta == Pt(Sub(target.x, origin.x), Sub(target.y, origin.y))
    IN  Obb(Size(Add(obb.size.width, Mul(padding, Int2Num(2))),
                 Add(obb.size.height, Mul(padding, Int2Num(2)))),
            translate(obb.space, delta))

\* shrink that pads by padding instead of -padding
ObbShrink_SamePadding(obb, padding) == ObbExpand(obb, padding)

\* obb.shrink(padding)
ObbShrink(obb, padding) == ObbExpand(obb, Neg(padding))

\* The local corners in the order toAabb lists them.
ObbCorners(obb) ==
    << Pt(Zero, Zero), Pt(Zero, obb.size.height),
       Pt(obb.size.width, Zero), Pt(obb.size.width, obb.size.height) >>

\* obb.toAabb()
toAabb(obb) ==
    fromPoints([i \in 1..4 |-> mapToGlobal(obb, ObbCorners(obb)[i])])

\* x || 1: 1 for a falsy number (0 or NaN), x otherwise
OrOne(x) == IF Eq(x, Zero) \/ IsNaN(x) THEN One ELSE x

\* scalePoint that divides and multiplies by the extents as they are
scalePoint_NoSubstitute(obb, p, nextObb) ==
    Pt(Mul(Div(p.x, obb.size.width), nextObb.size.width),
       Mul(Div(p.y, obb.size.height), nextObb.size.height))

\* obb.scalePoint(point, nextObb)
scalePoint(obb, p, nextObb) ==
    LET prevWidth == OrOne(obb.size.width)
        prevHeight == OrOne(obb.size.height)
        nextWidth == OrOne(nextObb.size.width)
        nextHeight == OrOne(nextObb.size.height)
    IN  Pt(Mul(Div(p.x, prevWidth), nextWidth),
           Mul(Div(p.y, prevHeight), nextHeight))

----------------------------------------------------------------------------

(* Objects.  A heap is the sequence of the objects allocated so far and a  *)
(* reference is an index into it.  A call is modelled by the heap it       *)
(* leaves and the reference it returns: `new C(...)` and an object literal *)
(* append an object, `return this` returns the receiver's reference, and   *)
(* an assignment to a field replaces the object at its reference.          *)

SizeObject(width, height) == [kind |-> "Size", width |-> width, height |-> height]

MatrixObject(data) == [kind |-> "Matrix", data |-> data]

\* new Obb(size, space): the fields hold the references they were given
ObbObject(size, space) == [kind |-> "Obb", size |-> size, space |-> space]

\* The references of the objects of a kind.
Refs(h, kind) == {r \in 1..Len(h) : h[r].kind = kind}

\* What a call leaves and returns.
Returned(h, ref) == [heap |-> h, ref |-> ref]

\* An object is allocated and its reference returned.
New(h, object) == Returned(Append(h, object), Len(h) + 1)

\* matrix.translate(delta) on the heap: the receiver itself for a zero delta
MatrixTranslateRef(h, matrix, delta) ==
    IF Eq(delta.x, Zero) /\ Eq(delta.y, Zero) THEN Returned(h, matrix)
    ELSE New(h, MatrixObject(translate(h[matrix].data, delta)))

\* The Obb value of the Obb object at obb: obb.width, obb.height, obb.space
ObbValue(h, obb) ==
    Obb(Size(h[h[obb].size].width, h[h[obb].size].height), h[h[obb].space].data)

\* obb.translate(delta) on the heap
ObbTranslateRef(h, obb, delta) ==
    LET moved == MatrixTranslateRef(h, h[obb].space, delta)
    IN  New(moved.heap, ObbObject(h[obb].size, moved.ref))

\* obb.expand(padding) on the heap
ObbExpandRef(h, obb, padding) ==
    LET this == ObbValue(h, obb)
        origin == transform(this.space, Pt(Zero, Zero))
        target == transform(this.space, Pt(Neg(padding), Neg(padding)))
        delta == Pt(Sub(target.x, origin.x), Sub(target.y, origin.y))
        size == New(h, SizeObject(Add(this.size.width, Mul(padding, Int2Num(2))),
                                  Add(this.size.height, Mul(padding, Int2Num(2)))))
        moved == MatrixTranslateRef(size.heap, h[obb].space, delta)
    IN  New(moved.heap, ObbObject(size.ref, moved.ref))

\* obb.shrink(padding) on the heap
ObbShrinkRef(h, obb, padding) == ObbExpandRef(h, obb, Neg(padding))

\* What a call leaves and the value it returns.
Answered(h, value) == [heap |-> h, value |-> value]

\* matrix.inverse() on the heap: always a new Matrix
MatrixInverseRef(h, matrix) == New(h, MatrixObject(inverse(h[matrix].data)))

\* obb.mapToLocal(globalPoint) on the heap: this.space.inverse() is allocated
\* and the Point is computed from it
ObbMapToLocalOn(h, obb, globalPoint) ==
    LET inverted == MatrixInverseRef(h, h[obb].space)
    IN  Answered(inverted.heap,
                 transform(inverted.heap[inverted.ref].data, globalPoint))

\* obb.includesPoint(point) on the heap
ObbIncludesPointOn(h, obb, p) ==
    LET mapped == ObbMapToLocalOn(h, obb, p)
        localPoint == mapped.value
        width == mapped.heap[mapped.heap[obb].size].width
        height == mapped.heap[mapped.heap[obb].size].height
    IN  Answered(mapped.heap,
                 /\ Ge(localPoint.x, Zero)
                 /\ Le(localPoint.x, width)
                 /\ Ge(localPoint.y, Zero)
                 /\ Le(localPoint.y, height))

\* An Aabb object: its four fields are public and assignable
AabbObject(aabb) ==
    [kind |-> "Aabb", minX |-> aabb.minX, minY |-> aabb.minY,
     maxX |-> aabb.maxX, maxY |-> aabb.maxY]

\* The fields of the Aabb object at aabb
AabbAt(h, aabb) == Aabb(h[aabb].minX, h[aabb].minY, h[aabb].maxX, h[aabb].maxY)

\* A Point object: { x, y }
PointObject(p) == [kind |-> "Point", x |-> p.x, y |-> p.y]

\* The fields of the Point object at p
PointAt(h, p) == Pt(h[p].x, h[p].y)

\* The fields of the object at ref are assigned and nothing is returned.
Assign(h, ref, object) == Returned([h EXCEPT ![ref] = object], 0)

\* new Aabb(...) with the fields of aabb
NewAabb(h, aabb) == New(h, AabbObject(aabb))

\* The fields of the Aabb object at ref are assigned those of aabb.
AssignAabb(h, ref, aabb) == Assign(h, ref, AabbObject(aabb))

\* { x: ..., y: ... } with the coordinates of p
NewPoint(h, p) == New(h, PointObject(p))

\* Point.inPlace.add(a, b): a.x += b.x; a.y += b.y
PointInPlaceAdd(h, a, b) ==
    LET first == [h EXCEPT ![a].x = Add(h[a].x, h[b].x)]
    IN  Returned([first EXCEPT ![a].y = Add(first[a].y, first[b].y)], 0)

\* Point.inPlace.sub(a, b): a.x -= b.x; a.y -= b.y
PointInPlaceSub(h, a, b) ==
    LET first == [h EXCEPT ![a].x = Sub(h[a].x, h[b].x)]
    IN  Returned([first EXCEPT ![a].y = Sub(first[a].y, first[b].y)], 0)

\* Point.inPlace.mul(a, b): a.x *= b.x; a.y *= b.y
PointInPlaceMul(h, a, b) ==
    LET first == [h EXCEPT ![a].x = Mul(h[a].x, h[b].x)]
    IN  Returned([first EXCEPT ![a].y = Mul(first[a].y, first[b].y)], 0)

\* Point.inPlace.div(a, b): a.x /= b.x; a.y /= b.y
PointInPlaceDiv(h, a, b) ==
    LET first == [h EXCEPT ![a].x = Div(h[a].x, h[b].x)]
    IN  Returned([first EXCEPT ![a].y = Div(first[a].y, first[b].y)], 0)

\* Point.inPlace.neg(point): point.x = -point.x; point.y = -point.y
PointInPlaceNeg(h, p) ==
    LET first == [h EXCEPT ![p].x = Neg(h[p].x)]
    IN  Returned([first EXCEPT ![p].y = Neg(first[p].y)], 0)

\* Point.inPlace.scale(point, sx, sy): point.x *= sx; point.y *= sy
PointInPlaceScale(h, p, sx, sy) ==
    LET first == [h EXCEPT ![p].x = Mul(h[p].x, sx)]
    IN  Returned([first EXCEPT ![p].y = Mul(first[p].y, sy)], 0)

\* Point.inPlace.normalize(point), in the way of a length taken anew for y
PointInPlaceNormalize_LengthTakenTwice(h, p) ==
    LET first == [h EXCEPT ![p].x = Mul(h[p].x, Div(One, length(PointAt(h, p))))]
    IN  Returned([first EXCEPT ![p].y = Mul(first[p].y, Div(One, length(PointAt(first, p))))], 0)

\* Point.inPlace.normalize(point): scale(point, 1 / length(point))
PointInPlaceNormalize(h, p) ==
    PointInPlaceScale(h, p, Div(One, length(PointAt(h, p))), Div(One, length(PointAt(h, p))))

\* Point.inPlace.round(point, precision)
PointInPlaceRound(h, p, precision) ==
    LET m == Pow10(precision)
        im == Nearest(Div(One, m))
        first == [h EXCEPT ![p].x = Nearest(Mul(Round(Nearest(Mul(h[p].x, m))), im))]
    IN  Returned([first EXCEPT ![p].y = Nearest(Mul(Round(Nearest(Mul(first[p].y, m))), im))], 0)

\* aabb.clone() on the heap
AabbCloneRef(h, aabb) == NewAabb(h, clone(AabbAt(h, aabb)))

\* aabb.unionInPlace(o) on the heap
AabbUnionInPlaceRef(h, aabb, o) ==
    AssignAabb(h, aabb, unionInPlace(AabbAt(h, aabb), AabbAt(h, o)))

\* aabb.union(o) on the heap, in the way of the receiver-mutating variant
AabbUnionRef_IntoReceiver(h, aabb, o) ==
    Returned(AabbUnionInPlaceRef(h, aabb, o).heap, aabb)

\* aabb.union(o) on the heap: a clone is made and o is added to the clone
AabbUnionRef(h, aabb, o) ==
    LET made == AabbCloneRef(h, aabb)
    IN  Returned(AabbUnionInPlaceRef(made.heap, made.ref, o).heap, made.ref)

RECURSIVE AabbUnionInto(_, _, _)
\* aabbs.reduce((acc, item) => { acc.unionInPlace(item); return acc; }, acc)
AabbUnionInto(h, acc, aabbs) ==
    IF aabbs = <<>> THEN Returned(h, acc)
    ELSE AabbUnionInto(AabbUnionInPlaceRef(h, acc, Head(aabbs)).heap, acc, Tail(aabbs))

\* Aabb.union(...aabbs) on the heap
AabbUnionOfRef(h, aabbs) ==
    LET made == NewAabb(h, AabbEmpty)
    IN  AabbUnionInto(made.heap, made.ref, aabbs)

\* aabb.intersectionInPlace(o) on the heap
AabbIntersectionInPlaceRef(h, aabb, o) ==
    AssignAabb(h, aabb, intersectionInPlace(AabbAt(h, aabb), AabbAt(h, o)))

\* aabb.intersection(o) on the heap
AabbIntersectionRef(h, aabb, o) ==
    LET made == AabbCloneRef(h, aabb)
    IN  Returned(AabbIntersectionInPlaceRef(made.heap, made.ref, o).heap, made.ref)

RECURSIVE AabbIntersectionInto(_, _, _)
\* for (let i = 1; i < aabbs.length; i++) result.intersectionInPlace(aabbs[i])
AabbIntersectionInto(h, acc, aabbs) ==
    IF aabbs = <<>> THEN Returned(h, acc)
    ELSE AabbIntersectionInto(AabbIntersectionInPlaceRef(h, acc, Head(aabbs)).heap,
                              acc, Tail(aabbs))

\* Aabb.intersection(...aabbs) on the heap
AabbIntersectionOfRef(h, aabbs) ==
    IF aabbs = <<>> THEN NewAabb(h, AabbEmpty)
    ELSE LET made == AabbCloneRef(h, Head(aabbs))
         IN  AabbIntersectionInto(made.heap, made.ref, Tail(aabbs))

----------------------------------------------------------------------------

(* The values the operations are tried on.                                 *)

MaxOps == 2

Frac(n, d) == Num(n, d)

P(x, y) == Pt(Int2Num(x), Int2Num(y))

\* A length below the resolution 10^-4 of the transform detection.
Tiny == Frac(1, 100000)

SamplePoints == {P(0, 0), P(3, -2), Pt(Frac(1, 2), One)}

Deltas == {P(0, 0), P(1, 2), Pt(Tiny, Zero)}

Factors == {P(1, 1), P(2, 2), Pt(Frac(1, 2), Int2Num(3)), P(2, -1), P(0, 1)}

Sizes == {Size(One, Int2Num(2)), Size(Int2Num(2), Int2Num(2))}

\* Matrices as the static constructors and the chaining methods build them:
\* the identity, a non-uniform scaling, the chain of the test suite
\* (translate, rotate, scale), a rotated non-uniform scaling, a singular
\* scaling with a zero first row, and a singular matrix with no zero row.
BaseSpaces ==
    { identity,
      scaling(P(2, 1)),
      scale(rotate(translate(identity, P(1, 2)), "quarter"), P(2, 2)),
      rotate(scaling(P(2, 1)), "alpha"),
      scaling(P(0, 1)),
      rotate(scaling(P(0, 1)), "alpha") }

Ops ==
    [op : {"translate"}, arg : Deltas] \cup [op : {"rotate"}, arg : Angles]
        \cup [op : {"scale"}, arg : Factors] \cup [op : {"resize"}, arg : Sizes]

NoResult == [op |-> "none", args |-> <<>>, value |-> AabbEmpty]

\* The variables a specification does not use keep these values.
MappingIdle ==
    /\ third = root
    /\ point = PointZero
    /\ image = PointZero
    /\ route = <<>>

AabbIdle ==
    /\ box = AabbEmpty
    /\ other = AabbEmpty
    /\ points = <<>>
    /\ result = NoResult

HeapIdle ==
    /\ heap = <<>>
    /\ before = <<>>

----------------------------------------------------------------------------
(* Spec: a widget's Obb, prev, is moved, turned, scaled and resized; next  *)
(* is the Obb after the operations in ops.                                 *)

Init ==
    /\ prev \in {Obb(s, m) : s \in {Size(One, Int2Num(2))}, m \in BaseSpaces}
    /\ next = prev
    /\ ops = <<>>
    /\ chained = [p \in SamplePoints |-> transform(prev.space, p)]
    /\ MappingIdle
    /\ AabbIdle
    /\ HeapIdle

\* next = next.translate(delta)
Translate(delta) ==
    /\ Len(ops) < MaxOps
    /\ next' = ObbTranslate(next, delta)
    /\ ops' = Append(ops, [op |-> "translate", arg |-> delta])
    /\ chained' = [p \in SamplePoints |-> transform(translation(delta), chained[p])]
    /\ UNCHANGED <<prev, mappingVars, aabbVars, heapVars>>

\* next = new Obb(next.size, next.space.rotate(angle))
Rotate(t) ==
    /\ Len(ops) < MaxOps
    /\ next' = Obb(next.size, rotate(next.space, t))
    /\ ops' = Append(ops, [op |-> "rotate", arg |-> t])
    /\ chained' = [p \in SamplePoints |-> transform(rotation(t), chained[p])]
    /\ UNCHANGED <<prev, mappingVars, aabbVars, heapVars>>

\* next = new Obb(next.size, next.space.scale(k.x, k.y))
Scale(k) ==
    /\ Len(ops) < MaxOps
    /\ next' = Obb(next.size, scale(next.space, k))
    /\ ops' = Append(ops, [op |-> "scale", arg |-> k])
    /\ chained' = [p \in SamplePoints |-> transform(scaling(k), chained[p])]
    /\ UNCHANGED <<prev, mappingVars, aabbVars, heapVars>>

\* next = new Obb(size, next.space)
Resize(size) ==
    /\ Len(ops) < MaxOps
    /\ next' = Obb(size, next.space)
    /\ ops' = Append(ops, [op |-> "resize", arg |-> size])
    /\ UNCHANGED <<prev, chained, mappingVars, aabbVars, heapVars>>

Next ==
    \/ \E delta \in Deltas : Translate(delta)
    \/ \E t \in Angles : Rotate(t)
    \/ \E k \in Factors : Scale(k)
    \/ \E size \in Sizes : Resize(size)

Spec == Init /\ [][Next]_vars

----------------------------------------------------------------------------
(* SpecMap: a point local to prev is mapped from frame to frame, through   *)
(* the global space (mapToGlobal, mapToLocal) or directly (mapTo).         *)

MaxHops == 2

LocalFrames == {"prev", "next", "third"}

TransformIdle ==
    /\ ops = <<>>
    /\ chained = [p \in SamplePoints |-> p]

\* The Obb a frame name stands for.
FrameObb(name) ==
    CASE name = "prev" -> prev
      [] name = "next" -> next
      [] name = "third" -> third

\* The frame image is expressed in.
Frame == route[Len(route)]

InitMap ==
    /\ prev \in {Obb(Size(One, Int2Num(2)), m) : m \in BaseSpaces}
    /\ next \in {Obb(Size(Int2Num(2), Int2Num(2)), m) :
                    m \in { rotate(scaling(P(2, 1)), "alpha"),
                            translate(rotation("alpha"), P(1, 2)),
                            scaling(P(0, 1)) }}
    /\ third \in {Obb(Size(One, One), m) :
                    m \in { scale(rotate(translate(identity, P(1, 2)), "quarter"), P(2, 2)),
                            translation(P(-3, 1)) }}
    /\ point \in SamplePoints
    /\ image = point
    /\ route = <<"prev">>
    /\ TransformIdle
    /\ AabbIdle
    /\ HeapIdle

\* image = frame.mapToGlobal(image)
MapToGlobal ==
    /\ Len(route) - 1 < MaxHops
    /\ Frame \in LocalFrames
    /\ image' = mapToGlobal(FrameObb(Frame), image)
    /\ route' = Append(route, "global")
    /\ UNCHANGED <<transformVars, third, point, aabbVars, heapVars>>

\* image = to.mapToLocal(image)
MapToLocal(to) ==
    /\ Len(route) - 1 < MaxHops
    /\ Frame = "global"
    /\ image' = mapToLocal(FrameObb(to), image)
    /\ route' = Append(route, to)
    /\ UNCHANGED <<transformVars, third, point, aabbVars, heapVars>>

\* image = frame.mapTo(to, image)
MapTo(to) ==
    /\ Len(route) - 1 < MaxHops
    /\ Frame \in LocalFrames
    /\ image' = mapTo(FrameObb(Frame), FrameObb(to), image)
    /\ route' = Append(route, to)
    /\ UNCHANGED <<transformVars, third, point, aabbVars, heapVars>>

NextMap ==
    \/ MapToGlobal
    \/ \E to \in LocalFrames : MapToLocal(to)
    \/ \E to \in LocalFrames : MapTo(to)

SpecMap == InitMap /\ [][NextMap]_vars

----------------------------------------------------------------------------
(* SpecAabb: points are added to box, which starts as Aabb.empty(), and    *)
(* boxes are built from the points and united.                             *)

MaxPoints == 3

BoxPoints == {P(0, 0), P(1, 3), P(-2, 2), Pt(Frac(1, 2), Int2Num(-1))}

\* A valid box, the empty box, an invalid box that is not the canonical
\* empty one, and the box of a single point.
SampleBoxes ==
    { fromLtrb(Int2Num(2), One, Int2Num(5), Int2Num(4)),
      AabbEmpty,
      fromLtrb(One, Zero, Int2Num(-1), Zero),
      fromPoint(P(-3, 1)) }

InitAabb ==
    /\ box = AabbEmpty
    /\ other \in SampleBoxes
    /\ points = <<>>
    /\ result = NoResult
    /\ prev = root
    /\ next = root
    /\ TransformIdle
    /\ MappingIdle
    /\ HeapIdle

\* box.addPointInPlace(p)
AddPointInPlace(p) ==
    /\ Len(points) < MaxPoints
    /\ box' = addPointInPlace(box, p)
    /\ points' = Append(points, p)
    /\ UNCHANGED <<other, result, transformVars, mappingVars, heapVars>>

\* box = box.addPoint(p)
AddPoint(p) ==
    /\ Len(points) < MaxPoints
    /\ box' = addPoint(box, p)
    /\ points' = Append(points, p)
    /\ UNCHANGED <<other, result, transformVars, mappingVars, heapVars>>

\* result = Aabb.fromPoints(points)
FromPoints ==
    /\ result' = [op |-> "fromPoints", args |-> points, value |-> fromPoints(points)]
    /\ UNCHANGED <<box, other, points, transformVars, mappingVars, heapVars>>

\* result = Aabb.union(a, b)
UnionOf(a, b) ==
    /\ result' = [op |-> "Aabb.union", args |-> <<a, b>>, value |-> AabbUnion(<<a, b>>)]
    /\ UNCHANGED <<box, other, points, transformVars, mappingVars, heapVars>>

\* result = box.union(other)
UnionWith ==
    /\ result' = [op |-> "union", args |-> <<box, other>>, value |-> union(box, other)]
    /\ UNCHANGED <<box, other, points, transformVars, mappingVars, heapVars>>

NextAabb ==
    \/ \E p \in BoxPoints : AddPointInPlace(p)
    \/ \E p \in BoxPoints : AddPoint(p)
    \/ FromPoints
    \/ \E a, b \in {box, other, AabbEmpty} : UnionOf(a, b)
    \/ UnionWith

SpecAabb == InitAabb /\ [][NextAabb]_vars

----------------------------------------------------------------------------
(* SpecBox: two boxes are intersected, by the static Aabb.intersection,    *)
(* by the method and in place, and box is transformed by a matrix.         *)

\* Boxes that overlap, touch along an edge or at a corner, lie apart or
\* inside one another; a box of a single point, a box with fractional
\* coordinates and the empty box.
ClipBoxes ==
    { fromLtrb(Zero, Zero, Int2Num(4), Int2Num(4)),
      fromLtrb(Int2Num(2), One, Int2Num(5), Int2Num(4)),
      fromLtrb(Int2Num(4), Zero, Int2Num(6), Int2Num(2)),
      fromLtrb(Int2Num(5), Int2Num(5), Int2Num(7), Int2Num(6)),
      fromLtrb(One, One, Int2Num(2), Int2Num(2)),
      fromPoint(P(4, 4)),
      fromLtrb(Frac(-3, 2), Int2Num(-2), Frac(1, 2), One),
      AabbEmpty }

\* The matrices box is transformed by: those of BaseSpaces, a mirroring
\* scale and a rotation followed by a translation.
BoxMatrices ==
    BaseSpaces \cup { scaling(P(2, -1)), translate(rotation("alpha"), P(-3, 1)) }

InitBox ==
    /\ box \in ClipBoxes
    /\ other \in ClipBoxes
    /\ points = <<>>
    /\ result = NoResult
    /\ prev = root
    /\ next = root
    /\ TransformIdle
    /\ MappingIdle
    /\ HeapIdle

\* result = Aabb.intersection(...aabbs)
IntersectionOf(aabbs) ==
    /\ result' = [op |-> "Aabb.intersection", args |-> aabbs,
                  value |-> AabbIntersection(aabbs)]
    /\ UNCHANGED <<box, other, points, transformVars, mappingVars, heapVars>>

\* result = box.intersection(other)
IntersectionWith ==
    /\ result' = [op |-> "intersection", args |-> <<box, other>>,
                  value |-> intersection(box, other)]
    /\ UNCHANGED <<box, other, points, transformVars, mappingVars, heapVars>>

\* box.intersectionInPlace(other)
IntersectionInPlace ==
    /\ box' = intersectionInPlace(box, other)
    /\ UNCHANGED <<other, points, result, transformVars, mappingVars, heapVars>>

\* result = box.transform(matrix)
TransformBox(matrix) ==
    /\ result' = [op |-> "transform", args |-> <<box, matrix>>,
                  value |-> AabbTransform(box, matrix)]
    /\ UNCHANGED <<box, other, points, transformVars, mappingVars, heapVars>>

NextBox ==
    \/ \E aabbs \in {<<>>, <<box>>, <<box, other>>, <<other, box>>, <<box, other, box>>} :
          IntersectionOf(aabbs)
    \/ IntersectionWith
    \/ IntersectionInPlace
    \/ \E matrix \in BoxMatrices : TransformBox(matrix)

SpecBox == InitBox /\ [][NextBox]_vars

----------------------------------------------------------------------------

(* SpecObb: the Obb next is derived from prev by expand and shrink; points *)
(* are tested against it, its Aabb is taken, and points are scaled from    *)
(* prev to it.  result is the last operation and what it returned.         *)

MaxPads == 2

Paddings == {Zero, One, Frac(1, 2)}

\* The identity, the chain of the test suite, a rotated non-uniform scaling
\* and a singular scaling.
PadSpaces ==
    { identity,
      scale(rotate(translate(identity, P(1, 2)), "quarter"), P(2, 2)),
      rotate(scaling(P(2, 1)), "alpha"),
      scaling(P(0, 1)) }

\* Obbs of the size of the tests in proportion with each of the spaces, a
\* zero-sized Obb and an Obb of zero height.
PadObbs ==
    {Obb(Size(One, Int2Num(2)), space) : space \in PadSpaces}
        \cup { Obb(Size(Zero, Zero), identity),
               Obb(Size(Int2Num(2), Zero),
                   scale(rotate(translate(identity, P(1, 2)), "quarter"), P(2, 2))) }

\* Points in global coordinates.
GlobalProbes == {P(1, 2), Pt(Frac(1, 2), One), P(-1, -1)}

\* Points handed to scalePoint.
ScalePoints == {P(3, -2), Pt(Frac(1, 2), One)}

InitObb ==
    /\ prev \in PadObbs
    /\ next = prev
    /\ TransformIdle
    /\ MappingIdle
    /\ AabbIdle
    /\ HeapIdle

\* next = next.expand(padding)
Expand(padding) ==
    /\ Len(ops) < MaxPads
    /\ next' = ObbExpand(next, padding)
    /\ ops' = Append(ops, [op |-> "expand", arg |-> padding])
    /\ result' = [op |-> "expand", args |-> <<next, padding>>, value |-> next']
    /\ UNCHANGED <<prev, chained, mappingVars, box, other, points, heapVars>>

\* next = next.shrink(padding)
Shrink(padding) ==
    /\ Len(ops) < MaxPads
    /\ next' = ObbShrink(next, padding)
    /\ ops' = Append(ops, [op |-> "shrink", arg |-> padding])
    /\ result' = [op |-> "shrink", args |-> <<next, padding>>, value |-> next']
    /\ UNCHANGED <<prev, chained, mappingVars, box, other, points, heapVars>>

\* result = next.includesPoint(g)
IncludesPoint(g) ==
    /\ result' = [op |-> "includesPoint", args |-> <<next, g>>,
                  value |-> ObbIncludesPoint(next, g)]
    /\ UNCHANGED <<transformVars, mappingVars, box, other, points, heapVars>>

\* result = obb.toAabb()
ToAabb(obb) ==
    /\ result' = [op |-> "toAabb", args |-> <<obb>>, value |-> toAabb(obb)]
    /\ UNCHANGED <<transformVars, mappingVars, box, other, points, heapVars>>

\* result = prev.scalePoint(p, next)
ScalePoint(p) ==
    /\ result' = [op |-> "scalePoint", args |-> <<prev, p, next>>,
                  value |-> scalePoint(prev, p, next)]
    /\ UNCHANGED <<transformVars, mappingVars, box, other, points, heapVars>>

NextObb ==
    \/ \E padding \in Paddings : Expand(padding)
    \/ \E padding \in Paddings \ {Zero} : Shrink(padding)
    \/ \E g \in GlobalProbes \cup {mapToGlobal(next, ObbCorners(next)[i]) : i \in 1..4} :
          IncludesPoint(g)
    \/ \E obb \in {prev, next} : ToAabb(obb)
    \/ \E p \in ScalePoints : ScalePoint(p)

SpecObb == InitObb /\ [][NextObb]_vars

----------------------------------------------------------------------------

(* SpecChain: the matrix next.space is built from prev.space by the        *)
(* chaining methods translate, rotate, scale, rotateAround and scaleAround;*)
(* result is the last call and the matrix it returned.                     *)

MaxCalls == 2

Pivots == {P(0, 0), P(1, 2)}

ChainAngles == {"zero", "alpha"}

ChainFactors == {P(1, 1), P(2, -1)}

ChainDeltas == {P(0, 0), Pt(Frac(1, 2), Int2Num(-1))}

InitChain ==
    /\ prev \in {Obb(Size(One, Int2Num(2)), space) : space \in PadSpaces}
    /\ next = prev
    /\ TransformIdle
    /\ MappingIdle
    /\ AabbIdle
    /\ HeapIdle

\* The step of SpecChain that calls the method op with args on next.space
\* and gets the matrix value.
Call(op, args, value) ==
    /\ Len(ops) < MaxCalls
    /\ next' = Obb(next.size, value)
    /\ ops' = Append(ops, [op |-> op, arg |-> args])
    /\ result' = [op |-> op, args |-> <<next.space>> \o args, value |-> value]
    /\ UNCHANGED <<prev, chained, mappingVars, box, other, points, heapVars>>

\* next.space.translate(delta)
TranslateBy(delta) == Call("translate", <<delta>>, translate(next.space, delta))

\* next.space.rotate(angle)
RotateBy(t) == Call("rotate", <<t>>, rotate(next.space, t))

\* next.space.scale(k.x, k.y)
ScaleBy(k) == Call("scale", <<k>>, scale(next.space, k))

\* next.space.rotateAround(angle, pivot)
RotateAround(t, pivot) ==
    Call("rotateAround", <<t, pivot>>, rotateAround(next.space, t, pivot))

\* next.space.scaleAround(k, pivot)
ScaleAround(k, pivot) ==
    Call("scaleAround", <<k, pivot>>, scaleAround(next.space, k, pivot))

NextChain ==
    \/ \E delta \in ChainDeltas : TranslateBy(delta)
    \/ \E t \in ChainAngles : RotateBy(t)
    \/ \E k \in ChainFactors : ScaleBy(k)
    \/ \E t \in ChainAngles, pivot \in Pivots : RotateAround(t, pivot)
    \/ \E k \in ChainFactors, pivot \in Pivots : ScaleAround(k, pivot)

SpecChain == InitChain /\ [][NextChain]_vars

----------------------------------------------------------------------------

(* SpecShare: Obbs are derived from one another by translate, expand and   *)
(* shrink, and the caller assigns to the width and height of their size    *)
(* records (the fields of Size are not readonly).  result is the last      *)
(* derivation: the Obb it was called on and the Obb it returned.           *)

MaxDerived == 2

\* The value a caller assigns to an extent.
Assigned == {Int2Num(5)}

InitShare ==
    /\ heap \in { << SizeObject(One, Int2Num(2)), MatrixObject(space), ObbObject(1, 2) >> :
                     space \in {identity, rotate(scaling(P(2, 1)), "alpha")} }
    /\ before = heap
    /\ prev = root
    /\ next = root
    /\ TransformIdle
    /\ MappingIdle
    /\ AabbIdle

\* The step that calls the method op of the Obb at obb and gets returned.
Derive(op, obb, arg, returned) ==
    /\ Cardinality(Refs(heap, "Obb")) < 1 + MaxDerived
    /\ heap' = returned.heap
    /\ before' = heap
    /\ result' = [op |-> op, args |-> <<obb, arg>>, value |-> returned.ref]
    /\ UNCHANGED <<transformVars, mappingVars, box, other, points>>

\* obb.translate(delta)
DeriveTranslate(obb, delta) ==
    Derive("translate", obb, delta, ObbTranslateRef(heap, obb, delta))

\* obb.expand(padding)
DeriveExpand(obb, padding) ==
    Derive("expand", obb, padding, ObbExpandRef(heap, obb, padding))

\* obb.shrink(padding)
DeriveShrink(obb, padding) ==
    Derive("shrink", obb, padding, ObbShrinkRef(heap, obb, padding))

\* obb.size.width = v
AssignWidth(obb, v) ==
    /\ heap[heap[obb].size].width # v
    /\ heap' = [heap EXCEPT ![heap[obb].size].width = v]
    /\ before' = heap
    /\ UNCHANGED <<transformVars, mappingVars, aabbVars>>

\* obb.size.height = v
AssignHeight(obb, v) ==
    /\ heap[heap[obb].size].height # v
    /\ heap' = [heap EXCEPT ![heap[obb].size].height = v]
    /\ before' = heap
    /\ UNCHANGED <<transformVars, mappingVars, aabbVars>>

NextShare ==
    \/ \E obb \in Refs(heap, "Obb"), delta \in {P(0, 0), P(1, 2)} : DeriveTranslate(obb, delta)
    \/ \E obb \in Refs(heap, "Obb") : DeriveExpand(obb, One)
    \/ \E obb \in Refs(heap, "Obb") : DeriveShrink(obb, Frac(1, 2))
    \/ \E obb \in Refs(heap, "Obb"), v \in Assigned : AssignWidth(obb, v)
    \/ \E obb \in Refs(heap, "Obb"), v \in Assigned : AssignHeight(obb, v)

SpecShare == InitShare /\ [][NextShare]_vars

----------------------------------------------------------------------------

(* SpecFrame: Aabb and Point objects and the calls made on them.  Every    *)
(* call has the newest object of its class as receiver (first argument)    *)
(* and, where it takes a second object of the class, the oldest one or the *)
(* receiver itself.  before is the heap before the last call and result    *)
(* names the call, the objects handed to it and the object it returned     *)
(* (0 when it returns nothing).                                            *)

MaxInvoked == 2

\* The oldest and the newest object of a kind.
Oldest(kind) == CHOOSE r \in Refs(heap, kind) : \A q \in Refs(heap, kind) : r <= q

Newest(kind) == CHOOSE r \in Refs(heap, kind) : \A q \in Refs(heap, kind) : r >= q

\* The objects handed over as second argument.
Seconds(kind) == {Oldest(kind), Newest(kind)}

InitFrame ==
    /\ heap = << AabbObject(fromLtrb(Frac(1, 3), Frac(-3, 2), Int2Num(3), Int2Num(2))),
                 AabbObject(fromLtrb(Int2Num(2), One, Int2Num(5), Int2Num(4))),
                 PointObject(Pt(Frac(1, 2), One)),
                 PointObject(P(3, 4)) >>
    /\ before = heap
    /\ prev = root
    /\ next = root
    /\ TransformIdle
    /\ MappingIdle
    /\ AabbIdle

\* The step that calls op with the objects args and gets returned.
Invoke(op, args, returned) ==
    /\ Len(ops) < MaxInvoked
    /\ heap' = returned.heap
    /\ before' = heap
    /\ ops' = Append(ops, [op |-> op, arg |-> args])
    /\ result' = [op |-> op, args |-> args, value |-> returned.ref]
    /\ UNCHANGED <<prev, next, chained, mappingVars, box, other, points>>

\* The receiver of the calls on an Aabb and the first argument of those on
\* a Point.
thisAabb == Newest("Aabb")

thisPoint == Newest("Point")

\* Their fields before the call.
aabbNow == AabbAt(heap, thisAabb)

pointNow == PointAt(heap, thisPoint)

\* The factors sx and sy handed to Point.inPlace.scale.
InPlaceFactors == <<Frac(1, 2), Int2Num(3)>>

NextFrame ==
    \/ \E q \in Seconds("Point") :
           Invoke("Aabb.addPoint", <<thisAabb, q>>, NewAabb(heap, addPoint(aabbNow, PointAt(heap, q))))
    \/ \E o \in Seconds("Aabb") :
           Invoke("Aabb.union", <<thisAabb, o>>, AabbUnionRef(heap, thisAabb, o))
    \/ \E o \in Seconds("Aabb") :
           Invoke("Aabb.intersection", <<thisAabb, o>>, AabbIntersectionRef(heap, thisAabb, o))
    \/ Invoke("Aabb.union(...)", <<thisAabb, Oldest("Aabb")>>,
              AabbUnionOfRef(heap, <<thisAabb, Oldest("Aabb")>>))
    \/ Invoke("Aabb.intersection(...)", <<thisAabb, Oldest("Aabb")>>,
              AabbIntersectionOfRef(heap, <<thisAabb, Oldest("Aabb")>>))
    \/ Invoke("Aabb.round", <<thisAabb>>, NewAabb(heap, AabbRound(aabbNow, DEFAULT_PRECISION)))
    \/ \E q \in Seconds("Point") :
           Invoke("Aabb.translate", <<thisAabb, q>>,
                  NewAabb(heap, AabbTranslate(aabbNow, PointAt(heap, q))))
    \/ Invoke("Aabb.scale", <<thisAabb, thisPoint>>, NewAabb(heap, AabbScale(aabbNow, Int2Num(2), pointNow)))
    \/ Invoke("Aabb.expand", <<thisAabb>>, NewAabb(heap, AabbExpand(aabbNow, Frac(1, 2))))
    \/ Invoke("Aabb.shrink", <<thisAabb>>, NewAabb(heap, AabbShrink(aabbNow, One)))
    \/ Invoke("Aabb.transform", <<thisAabb>>,
              NewAabb(heap, AabbTransform(aabbNow, rotate(scaling(P(2, 1)), "alpha"))))
    \/ Invoke("Aabb.clone", <<thisAabb>>, AabbCloneRef(heap, thisAabb))
    \/ \E q \in Seconds("Point") :
           Invoke("Aabb.addPointInPlace", <<thisAabb, q>>,
                  AssignAabb(heap, thisAabb, addPointInPlace(aabbNow, PointAt(heap, q))))
    \/ Invoke("Aabb.addXYInPlace", <<thisAabb>>,
              AssignAabb(heap, thisAabb, addXYInPlace(aabbNow, Int2Num(-1), Int2Num(6))))
    \/ \E o \in Seconds("Aabb") :
           Invoke("Aabb.unionInPlace", <<thisAabb, o>>, AabbUnionInPlaceRef(heap, thisAabb, o))
    \/ \E o \in Seconds("Aabb") :
           Invoke("Aabb.intersectionInPlace", <<thisAabb, o>>,
                  AabbIntersectionInPlaceRef(heap, thisAabb, o))
    \/ \E q \in Seconds("Point") :
           Invoke("Point.add", <<thisPoint, q>>, NewPoint(heap, PointAdd(pointNow, PointAt(heap, q))))
    \/ \E q \in Seconds("Point") :
           Invoke("Point.sub", <<thisPoint, q>>, NewPoint(heap, PointSub(pointNow, PointAt(heap, q))))
    \/ \E q \in Seconds("Point") :
           Invoke("Point.mul", <<thisPoint, q>>, NewPoint(heap, PointMul(pointNow, PointAt(heap, q))))
    \/ \E q \in Seconds("Point") :
           Invoke("Point.div", <<thisPoint, q>>, NewPoint(heap, PointDiv(pointNow, PointAt(heap, q))))
    \/ Invoke("Point.neg", <<thisPoint>>, NewPoint(heap, PointNeg(pointNow)))
    \/ Invoke("Point.scale", <<thisPoint>>, NewPoint(heap, PointScale(pointNow, Int2Num(2), Int2Num(2))))
    \/ /\ Len(ops) < MaxInvoked
       /\ IsSquare(lengthSquared(pointNow))
       /\ Invoke("Point.normalize", <<thisPoint>>, NewPoint(heap, normalize(pointNow)))
    \/ \E q \in Seconds("Point") :
           Invoke("Point.lerp", <<thisPoint, q>>,
                  NewPoint(heap, lerp(pointNow, PointAt(heap, q), Frac(1, 3))))
    \/ Invoke("Point.round", <<thisPoint>>, NewPoint(heap, PointRound(pointNow, DEFAULT_PRECISION)))
    \/ \E q \in Seconds("Point") :
           Invoke("Point.inPlace.add", <<thisPoint, q>>, PointInPlaceAdd(heap, thisPoint, q))
    \/ \E q \in Seconds("Point") :
           Invoke("Point.inPlace.sub", <<thisPoint, q>>, PointInPlaceSub(heap, thisPoint, q))
    \/ \E q \in Seconds("Point") :
           Invoke("Point.inPlace.mul", <<thisPoint, q>>, PointInPlaceMul(heap, thisPoint, q))
    \/ \E q \in Seconds("Point") :
           Invoke("Point.inPlace.div", <<thisPoint, q>>, PointInPlaceDiv(heap, thisPoint, q))
    \/ Invoke("Point.inPlace.neg", <<thisPoint>>, PointInPlaceNeg(heap, thisPoint))
    \/ Invoke("Point.inPlace.scale", <<thisPoint>>,
              PointInPlaceScale(heap, thisPoint, InPlaceFactors[1], InPlaceFactors[2]))
    \/ /\ Len(ops) < MaxInvoked
       /\ IsSquare(lengthSquared(pointNow))
       /\ Invoke("Point.inPlace.normalize", <<thisPoint>>, PointInPlaceNormalize(heap, thisPoint))
    \/ Invoke("Point.inPlace.round", <<thisPoint>>,
              PointInPlaceRound(heap, thisPoint, DEFAULT_PRECISION))

SpecFrame == InitFrame /\ [][NextFrame]_vars

----------------------------------------------------------------------------

(* SpecAngle: angles in degrees and in radians are normalized, added and   *)
(* subtracted.  result is the last call and the angle it returned.         *)

\* Angles in degrees: those of the tests, whole turns, and a negative angle
\* far smaller than the spacing of the numbers near 360.
DegreeInputs ==
    {Int2Num(0), Int2Num(10), Int2Num(20), Int2Num(30), Int2Num(350), Int2Num(370),
     Int2Num(-30), Int2Num(360), Int2Num(-360), Int2Num(720), Frac(1, 4), Frac(-1, 1024)}

\* The same angles in radians.
RadianInputs == {fromDegrees(v) : v \in DegreeInputs \ {Frac(-1, 1024)}} \cup {Frac(-1, 1024)}

InitAngle ==
    /\ prev = root
    /\ next = root
    /\ TransformIdle
    /\ MappingIdle
    /\ AabbIdle
    /\ HeapIdle

\* The step that calls op on args and gets value.
Angle(op, args, value) ==
    /\ result' = [op |-> op, args |-> args, value |-> value]
    /\ UNCHANGED <<transformVars, mappingVars, box, other, points, heapVars>>

NextAngle ==
    \/ \E v \in RadianInputs : Angle("Radians.normalize", <<v>>, RadiansNormalize(v))
    \/ \E a, b \in RadianInputs : Angle("Radians.add", <<a, b>>, RadiansAdd(a, b))
    \/ \E a, b \in RadianInputs : Angle("Radians.sub", <<a, b>>, RadiansSub(a, b))
    \/ \E v \in DegreeInputs : Angle("Degrees.normalize", <<v>>, DegreesNormalize(v))
    \/ \E a, b \in DegreeInputs : Angle("Degrees.add", <<a, b>>, DegreesAdd(a, b))
    \/ \E a, b \in DegreeInputs : Angle("Degrees.sub", <<a, b>>, DegreesSub(a, b))

SpecAngle == InitAngle /\ [][NextAngle]_vars

----------------------------------------------------------------------------

(* SpecRound: boxes whose coordinates are numbers written with two         *)
(* decimals are rounded to 0, 1 and 2 decimal places.                      *)

\* The number a decimal literal with two decimals denotes: k / 100 rounded.
Decimal(k) == Nearest(Num(k, 100))

Hundredths == {-1999, -191, -35, -7, 0, 7, 35, 41, 65, 100, 137, 150, 775}

\* The boxes minX = minY = x, maxX = maxY = y for the coordinates x <= y.
DecimalBoxes ==
    {fromLtrb(Decimal(ij[1]), Decimal(ij[1]), Decimal(ij[2]), Decimal(ij[2])) :
        ij \in {kl \in Hundredths \X Hundredths : kl[1] <= kl[2]}}

InitRound ==
    /\ box \in DecimalBoxes
    /\ other = AabbEmpty
    /\ points = <<>>
    /\ result = NoResult
    /\ prev = root
    /\ next = root
    /\ TransformIdle
    /\ MappingIdle
    /\ HeapIdle

\* box.round(precision)
RoundBox(precision) ==
    /\ result' = [op |-> "round", args |-> <<box, precision>>,
                  value |-> AabbRound(box, precision)]
    /\ UNCHANGED <<transformVars, mappingVars, box, other, points, heapVars>>

NextRound == \E precision \in {0, 1, DEFAULT_PRECISION} : RoundBox(precision)

SpecRound == InitRound /\ [][NextRound]_vars

----------------------------------------------------------------------------

(* SpecEquals: two boxes, valid or not, are compared by equals.            *)

EqualBoxes ==
    { fromLtrb(Int2Num(2), One, Int2Num(5), Int2Num(4)),
      fromLtrb(Int2Num(2), One, Int2Num(5), Int2Num(5)),
      fromPoint(P(4, 4)),
      fromLtrb(Zero, Zero, Zero, Zero),
      fromLtrb(NegInfinity, Zero, Infinity, One),
      AabbEmpty,
      fromLtrb(One, Zero, Int2Num(-1), Zero),
      fromLtrb(Zero, Int2Num(3), Int2Num(2), One),
      fromLtrb(NaN, Zero, One, One) }

InitEquals ==
    /\ box \in EqualBoxes
    /\ other \in EqualBoxes
    /\ points = <<>>
    /\ result = NoResult
    /\ prev = root
    /\ next = root
    /\ TransformIdle
    /\ MappingIdle
    /\ HeapIdle

\* box.equals(other)
Equals ==
    /\ result' = [op |-> "equals", args |-> <<box, other>>, value |-> AabbEquals(box, other)]
    /\ UNCHANGED <<transformVars, mappingVars, box, other, points, heapVars>>

NextEquals == Equals

SpecEquals == InitEquals /\ [][NextEquals]_vars

----------------------------------------------------------------------------
(* SpecInverse: an Obb whose space may have determinant 0; matrices are    *)
(* inverted and points are mapped to the local space and hit-tested.       *)

MaxInverted == 2

\* Matrices of determinant 0: nothing but zeros, a flattened axis, two
\* proportional columns with and without a translation.
SingularSpaces ==
    { Matrix(Zero, Zero, Zero, Zero, Zero, Zero),
      scaling(P(0, 1)),
      translate(scaling(P(2, 0)), P(1, 2)),
      Matrix(One, Int2Num(2), Int2Num(2), Int2Num(4), Zero, Zero),
      Matrix(One, Int2Num(2), Int2Num(2), Int2Num(4), Int2Num(3), Int2Num(-1)) }

\* Matrices that have an inverse.
RegularSpaces ==
    { identity,
      translation(P(60, 20)),
      scale(rotate(translate(identity, P(1, 2)), "quarter"), P(2, 2)) }

\* Points in global coordinates handed to mapToLocal and includesPoint.
InverseProbes == {P(0, 0), P(1, 2), Pt(Frac(1, 2), Int2Num(-1))}

\* The Size at 1, the space at 2 and the Obb made of them at 3.
InitInverse ==
    /\ heap \in {<<SizeObject(One, Int2Num(2)), MatrixObject(m), ObbObject(1, 2)>> :
                    m \in SingularSpaces \cup RegularSpaces}
    /\ before = heap
    /\ prev = root
    /\ next = root
    /\ TransformIdle
    /\ MappingIdle
    /\ AabbIdle

\* result = matrix.inverse()
Inverse(matrix) ==
    /\ Len(ops) < MaxInverted
    /\ before' = heap
    /\ heap' = MatrixInverseRef(heap, matrix).heap
    /\ ops' = Append(ops, [op |-> "inverse", arg |-> matrix])
    /\ result' = [op |-> "inverse", args |-> <<matrix>>,
                  value |-> MatrixInverseRef(heap, matrix).ref]
    /\ UNCHANGED <<prev, next, chained, mappingVars, box, other, points>>

\* result = obb.mapToLocal(g)
ObbMapToLocal(obb, g) ==
    /\ Len(ops) < MaxInverted
    /\ before' = heap
    /\ heap' = ObbMapToLocalOn(heap, obb, g).heap
    /\ ops' = Append(ops, [op |-> "mapToLocal", arg |-> g])
    /\ result' = [op |-> "mapToLocal", args |-> <<obb, g>>,
                  value |-> ObbMapToLocalOn(heap, obb, g).value]
    /\ UNCHANGED <<prev, next, chained, mappingVars, box, other, points>>

\* result = obb.includesPoint(g)
ObbHitTest(obb, g) ==
    /\ Len(ops) < MaxInverted
    /\ before' = heap
    /\ heap' = ObbIncludesPointOn(heap, obb, g).heap
    /\ ops' = Append(ops, [op |-> "includesPoint", arg |-> g])
    /\ result' = [op |-> "includesPoint", args |-> <<obb, g>>,
                  value |-> ObbIncludesPointOn(heap, obb, g).value]
    /\ UNCHANGED <<prev, next, chained, mappingVars, box, other, points>>

NextInverse ==
    \/ \E matrix \in Refs(heap, "Matrix") : Inverse(matrix)
    \/ \E obb \in Refs(heap, "Obb"), g \in InverseProbes : ObbMapToLocal(obb, g)
    \/ \E obb \in Refs(heap, "Obb"), g \in InverseProbes : ObbHitTest(obb, g)

SpecInverse == InitInverse /\ [][NextInverse]_vars

----------------------------------------------------------------------------
(* SpecNormalize: a vector is tested with isNonZero and normalized, as a   *)
(* value and in place.                                                     *)

\* Coordinates: small ones and ones whose square is too large to be a
\* number.
NormalizeCoordinates ==
    { Zero, One, Int2Num(-1), Int2Num(3), Int2Num(4), Int2Num(-4), Int2Num(12),
      Int2Num(5), Frac(1, 2), Frac(-3, 2), Int2Num(2), Frac(1, 1024),
      Int2Num(3000), Int2Num(-4000) }

\* The vectors whose length is a fraction or Infinity.
NormalizeInputs ==
    { p \in [x : NormalizeCoordinates, y : NormalizeCoordinates] :
          IsSquare(lengthSquared(p)) \/ ~IsFinite(lengthSquared(p)) }

InitNormalize ==
    /\ point \in NormalizeInputs
    /\ heap = <<PointObject(point)>>
    /\ before = heap
    /\ prev = root
    /\ next = root
    /\ TransformIdle
    /\ third = root
    /\ image = PointZero
    /\ route = <<>>
    /\ AabbIdle

\* result = Point.isNonZero(point)
IsNonZero ==
    /\ result' = [op |-> "isNonZero", args |-> <<point>>, value |-> isNonZero(point)]
    /\ UNCHANGED <<transformVars, mappingVars, box, other, points, heapVars>>

\* result = Point.normalize(point)
Normalize ==
    /\ result' = [op |-> "normalize", args |-> <<point>>, value |-> normalize(point)]
    /\ UNCHANGED <<transformVars, mappingVars, box, other, points, heapVars>>

\* Point.inPlace.normalize(p), p the object made of point
NormalizeInPlace ==
    /\ PointAt(heap, 1) = point
    /\ before' = heap
    /\ heap' = PointInPlaceNormalize(heap, 1).heap
    /\ result' = [op |-> "inPlace.normalize", args |-> <<point>>,
                  value |-> PointAt(heap', 1)]
    /\ UNCHANGED <<transformVars, mappingVars, box, other, points>>

NextNormalize ==
    \/ IsNonZero
    \/ Normalize
    \/ NormalizeInPlace

SpecNormalize == InitNormalize /\ [][NextNormalize]_vars

----------------------------------------------------------------------------
(* SpecCss: the CSS text of a matrix.                                      *)

\* Coefficients with a sign, a fraction, several digits, and no number.
CssDiagonal == {One, Int2Num(2), Frac(-1, 2), NaN}

CssSkew == {Zero, Int2Num(-1), Frac(3, 4)}

CssShift == {Zero, Int2Num(60), Int2Num(20), Frac(-125, 8), Infinity}

CssMatrices ==
    {Matrix(a, b, b, a, e, f) : a \in CssDiagonal, b \in CssSkew, e \in CssShift, f \in CssShift}
        \cup {Matrix(One, b, c, Int2Num(2), Int2Num(60), Int2Num(20)) : b \in CssSkew, c \in CssSkew}
        \cup {translation(P(60, 20)), inverse(scaling(P(0, 1)))}

InitCss ==
    /\ prev \in {Obb(Size(One, One), m) : m \in CssMatrices}
    /\ next = prev
    /\ TransformIdle
    /\ MappingIdle
    /\ AabbIdle
    /\ HeapIdle

\* result = prev.space.toCss()
ToCss ==
    /\ result' = [op |-> "toCss", args |-> <<prev.space>>, value |-> toCss(prev.space)]
    /\ UNCHANGED <<transformVars, mappingVars, box, other, points, heapVars>>

\* result = prev.space.transform(p)
TransformBy(p) ==
    /\ result' = [op |-> "transform", args |-> <<prev.space, p>>,
                  value |-> transform(prev.space, p)]
    /\ UNCHANGED <<transformVars, mappingVars, box, other, points, heapVars>>

NextCss ==
    \/ ToCss
    \/ \E p \in SamplePoints : TransformBy(p)

SpecCss == InitCss /\ [][NextCss]_vars

----------------------------------------------------------------------------
(* SpecBuild: a box is made from points or from a rectangle and then       *)
(* grown, moved, rounded, transformed and scaled; ops is what was done.    *)

MaxBuilt == 2

BuildPoints == {P(3, -2), Pt(Frac(-1, 3), Frac(7, 2))}

\* The boxes a build starts from.
BuildStarts ==
    { fromPoint(Pt(Frac(1, 2), One)),
      fromPoints(<<P(3, 4)>>),
      fromPoints(<<P(3, 4), P(-1, 6), Pt(Frac(1, 3), Zero)>>),
      fromLtwh(Frac(-3, 2), One, Zero, Int2Num(2)),
      fromLtwh(Frac(7, 20), Frac(7, 20), Frac(13, 20), Frac(13, 20)),
      fromRect([left |-> One, top |-> Int2Num(-2), width |-> Int2Num(3), height |-> Zero]) }

\* Valid boxes and the empty one, united with the box.
BuildOthers == {AabbEmpty, fromLtrb(Int2Num(2), One, Int2Num(5), Int2Num(4))}

\* Matrices with finite coefficients: a quarter turn after a translation
\* and before a scaling, a mirror, a matrix of determinant 0; and the
\* inverse of that last one, whose coefficients are not finite.
BuildMatrices ==
    { scale(rotate(translate(identity, P(1, 2)), "quarter"), P(2, 2)),
      scaling(P(-2, 1)),
      scaling(P(0, 1)),
      inverse(scaling(P(0, 1))) }

BuildFactors == {Zero, Frac(1, 2), Int2Num(3)}

BuildAmounts == {Zero, Frac(1, 2)}

InitBuild ==
    /\ box \in BuildStarts
    /\ other = AabbEmpty
    /\ points = <<>>
    /\ result = NoResult
    /\ prev = root
    /\ next = root
    /\ TransformIdle
    /\ MappingIdle
    /\ HeapIdle

\* box = value, the result of the operation op on box and arg
Built(op, arg, value) ==
    /\ Len(ops) < MaxBuilt
    /\ box' = value
    /\ ops' = Append(ops, [op |-> op, arg |-> arg])
    /\ result' = [op |-> op, args |-> <<box, arg>>, value |-> value]
    /\ UNCHANGED <<prev, next, chained, mappingVars, other, points, heapVars>>

NextBuild ==
    \/ \E p \in BuildPoints : Built("addPoint", p, addPoint(box, p))
    \/ \E p \in BuildPoints : Built("addPointInPlace", p, addPointInPlace(box, p))
    \/ \E o \in BuildOthers : Built("union", o, union(box, o))
    \/ \E o \in BuildOthers : Built("unionInPlace", o, unionInPlace(box, o))
    \/ \E delta \in BuildPoints : Built("translate", delta, AabbTranslate(box, delta))
    \/ \E precision \in {0, DEFAULT_PRECISION} :
          Built("round", precision, AabbRound(box, precision))
    \/ \E matrix \in BuildMatrices : Built("transform", matrix, AabbTransform(box, matrix))
    \/ \E amount \in BuildAmounts : Built("expand", amount, AabbExpand(box, amount))
    \/ \E factor \in BuildFactors, origin \in BuildPoints :
          Built("scale", <<factor, origin>>, AabbScale(box, factor, origin))

SpecBuild == InitBuild /\ [][NextBuild]_vars

----------------------------------------------------------------------------
(* SpecHit: points are hit-tested against the Obb prev, whose space has an *)
(* inverse, and against its global Aabb.                                   *)

\* Spaces as a Matrix holds them: scalings, one of them with a translation,
\* a quarter turn and a mirror.
HitSpaces ==
    { Float32Array(m) :
        m \in { identity,
                scaling(P(25, 1)),
                scaling(P(3, 3)),
                translate(scaling(P(5, 2)), P(1, -2)),
                scale(rotate(translate(identity, P(1, 2)), "quarter"), P(2, 2)),
                scaling(P(-2, 1)) } }

HitObbs ==
    {Obb(Size(w, One), space) : w \in {One, Int2Num(2)}, space \in HitSpaces}

\* Global points: in the middle of the boxes, on their edges, and a little
\* outside of them.
HitProbes ==
    {Pt(x, y) : x \in {Zero, One, Int2Num(3), Int2Num(25), Frac(51, 2), Int2Num(26),
                       Frac(25, 8), Int2Num(-2), Frac(21, 4)},
                y \in {Zero, Frac(1, 2), One, Int2Num(3), Frac(25, 8)}}

InitHit ==
    /\ prev \in HitObbs
    /\ next = prev
    /\ TransformIdle
    /\ MappingIdle
    /\ AabbIdle
    /\ HeapIdle

\* result = prev.includesPoint(g)
HitTest(g) ==
    /\ result' = [op |-> "includesPoint", args |-> <<prev, g>>,
                  value |-> ObbIncludesPointStored(prev, g)]
    /\ UNCHANGED <<transformVars, mappingVars, box, other, points, heapVars>>

\* result = prev.toAabb()
GlobalAabb ==
    /\ result' = [op |-> "toAabb", args |-> <<prev>>, value |-> toAabb(prev)]
    /\ UNCHANGED <<transformVars, mappingVars, box, other, points, heapVars>>

NextHit ==
    \/ \E g \in HitProbes : HitTest(g)
    \/ GlobalAabb

SpecHit == InitHit /\ [][NextHit]_vars

----------------------------------------------------------------------------
(* SpecScale: a valid box is scaled about an origin, by Aabb.scale and by  *)
(* the matrix of Matrix.scaleAround.                                       *)

\* Valid boxes: the one of the tests, one with fractions, one of a single
\* point, one without height.
ScaleBoxes ==
    { fromLtrb(Int2Num(-2), Zero, One, Int2Num(3)),
      fromLtrb(Frac(1, 3), Frac(-3, 2), Int2Num(3), Int2Num(2)),
      fromPoint(P(3, 4)),
      fromLtwh(One, Int2Num(-2), Int2Num(3), Zero) }

ScaleFactors == {Zero, One, Int2Num(2), Frac(1, 2), Int2Num(-1), Frac(-3, 2)}

ScaleOrigins == {PointZero, P(1, 1), Pt(Frac(-1, 2), Int2Num(3))}

InitScale ==
    /\ box \in ScaleBoxes
    /\ other = AabbEmpty
    /\ points = <<>>
    /\ result = NoResult
    /\ prev = root
    /\ next = root
    /\ TransformIdle
    /\ MappingIdle
    /\ HeapIdle

\* result = box.scale(factor, origin)
ScaleBox(factor, origin) ==
    /\ result' = [op |-> "scale", args |-> <<box, factor, origin>>,
                  value |-> AabbScale(box, factor, origin)]
    /\ UNCHANGED <<box, other, points, transformVars, mappingVars, heapVars>>

\* result = box.transform(Matrix.identity().scaleAround(factor, origin))
TransformScaled(factor, origin) ==
    /\ result' = [op |-> "transform",
                  args |-> <<box, scaleAround(identity, Pt(factor, factor), origin)>>,
                  value |-> AabbTransform(box, scaleAround(identity, Pt(factor, factor), origin))]
    /\ UNCHANGED <<box, other, points, transformVars, mappingVars, heapVars>>

NextScale ==
    \/ \E factor \in ScaleFactors, origin \in ScaleOrigins : ScaleBox(factor, origin)
    \/ \E factor \in ScaleFactors, origin \in ScaleOrigins : TransformScaled(factor, origin)

SpecScale == InitScale /\ [][NextScale]_vars

----------------------------------------------------------------------------

(* What the claims speak of.                                               *)

\* det(m) is a number other than 0
NonSingular(m) == IsFinite(det(m)) /\ ~Eq(det(m), Zero)

\* Neither (a, c) nor (b, d), the vectors hasScaling measures, is (0, 0).
NonZeroRows(m) ==
    /\ ~(Eq(m.a, Zero) /\ Eq(m.c, Zero))
    /\ ~(Eq(m.b, Zero) /\ Eq(m.d, Zero))

\* |x| > 1/2 * 10^-precision
AboveResolution(x) ==
    LET half == Div(One, Mul(Int2Num(2), Pow10(TRANSFORM_DETECTION_PRECISION)))
    IN  Gt(x, half) \/ Lt(x, Neg(half))

\* The kinds of the operations of ops, in order.
OpKinds == [i \in 1..Len(ops) |-> ops[i].op]

NonZeroFactor(k) == ~Eq(k.x, Zero) /\ ~Eq(k.y, Zero)

\* An angle that is not a whole number of full turns.
ProperAngle(t) == t \notin {"zero", "full"}

PureTranslation ==
    OpKinds = <<"translate">> /\ ~PointEquals(ops[1].arg, PointZero)

C5_AsStated ==
    (/\ NonSingular(prev.space)
     /\ OpKinds \in {<<"rotate">>, <<"translate">>, <<"rotate", "translate">>})
        => ~hasScaling(prev.space, next.space)

\* C6: for every invertible matrix m, all scale factors other than 0 and
\* every delta d, m.hasRotation(m.scale(sx, sy)) and
\* m.hasRotation(m.scale(sx, sy).translate(d)) are false.
C6_NoRotationFromScaling ==
    (/\ NonSingular(prev.space)
     /\ OpKinds \in {<<"scale">>, <<"scale", "translate">>}
     /\ NonZeroFactor(ops[1].arg))
        => ~hasRotation(prev.space, next.space)

C6_Witness ==
    /\ OpKinds = <<"scale", "translate">>
    /\ ops[1].arg = P(2, -1)
    /\ ops[2].arg = P(1, 2)
    /\ prev.space = rotate(scaling(P(2, 1)), "alpha")
    /\ ~isTranslationOf(prev.space, next.space)
    /\ ~hasRotation(prev.space, next.space)

\* C7 as stated: for every invertible matrix m and every angle t that is
\* not a whole number of full turns, m.hasRotation(m.rotate(t)) is true,
\* also when a scale with non-zero factors follows the rotation; the same
\* through Obb.hasRotation.
C7_AsStated ==
    (/\ NonSingular(prev.space)
     /\ OpKinds \in {<<"rotate">>, <<"rotate", "scale">>}
     /\ ProperAngle(ops[1].arg)
     /\ Len(ops) = 2 => NonZeroFactor(ops[2].arg))
        => hasRotation(prev.space, next.space) /\ ObbHasRotation(prev, next)

Range(seq) == {seq[i] : i \in 1..Len(seq)}

RECURSIVE SeqsUpTo(_, _)
\* The sequences over S of length at most k.
SeqsUpTo(S, k) ==
    IF k = 0 THEN {<<>>}
    ELSE LET shorter == SeqsUpTo(S, k - 1)
         IN  shorter \cup {Append(q, x) : q \in shorter, x \in S}

C10_FromPoints ==
    /\ box = fromPoints(points)
    /\ result.op = "fromPoints" =>
          LET ps == result.args
              r == result.value
          IN  /\ ps = points => r = box
              /\ \A i \in 1..Len(ps) :
                    /\ Le(r.minX, ps[i].x) /\ Le(ps[i].x, r.maxX)
                    /\ Le(r.minY, ps[i].y) /\ Le(ps[i].y, r.maxY)
              /\ ps # <<>> =>
                    /\ \E i \in 1..Len(ps) : r.minX = ps[i].x
                    /\ \E i \in 1..Len(ps) : r.minY = ps[i].y
                    /\ \E i \in 1..Len(ps) : r.maxX = ps[i].x
                    /\ \E i \in 1..Len(ps) : r.maxY = ps[i].y
              /\ ps = <<>> => r = AabbEmpty
              /\ \A qs \in SeqsUpTo(BoxPoints, MaxPoints) :
                    Range(qs) = Range(ps) => fromPoints(qs) = r

C10_Witness ==
    /\ result.op = "fromPoints"
    /\ result.args = <<P(0, 0), P(1, 3), P(-2, 2)>>
    /\ result.value = fromLtrb(Int2Num(-2), Zero, One, Int2Num(3))
    /\ points = result.args
    /\ box = result.value

\* C11: for all valid Aabbs a and b, a.intersects(b) holds exactly when the
\* intersection of a and b is a valid box; when a.intersects(b) is false
\* the intersection (Aabb.intersection(a, b) and a.intersection(b)) is
\* empty; the intersection is included in a and in b; and Aabb.intersection()
\* with no arguments is Aabb.empty().
C11_Intersection ==
    result.op \in {"Aabb.intersection", "intersection"} =>
        LET r == result.value
        IN  /\ Len(result.args) = 0 => r = AabbEmpty
            /\ Len(result.args) = 2 =>
                  LET a == result.args[1]
                      b == result.args[2]
                  IN  (isValid(a) /\ isValid(b)) =>
                          /\ intersects(a, b) <=> isValid(r)
                          /\ ~intersects(a, b) => isEmpty(r)
                          /\ includes(a, r)
                          /\ includes(b, r)
                          /\ r = intersection(a, b)
                          /\ r = AabbIntersection(<<a, b>>)

C11_Witness ==
    /\ result.op = "Aabb.intersection"
    /\ result.args = << fromLtrb(Zero, Zero, Int2Num(4), Int2Num(4)),
                        fromLtrb(Int2Num(5), Int2Num(5), Int2Num(7), Int2Num(6)) >>
    /\ ~intersects(result.args[1], result.args[2])
    /\ result.value = fromLtrb(Int2Num(5), Int2Num(5), Int2Num(4), Int2Num(4))
    /\ isEmpty(result.value)
    /\ ~isValid(result.value)

\* The normalized coordinates 0, 1/4, 1/2, 3/4, 1 on both axes.
Quarters == {Pt(Frac(i, 4), Frac(j, 4)) : i, j \in 0..4}

InLocalBox(l, size) ==
    /\ Le(Zero, l.x) /\ Le(l.x, size.width)
    /\ Le(Zero, l.y) /\ Le(l.y, size.height)

NonNegativeSize(size) == Le(Zero, size.width) /\ Le(Zero, size.height)

ExpandedBy(o, e, p) ==
    /\ e.size = Size(Add(o.size.width, Mul(Int2Num(2), p)),
                     Add(o.size.height, Mul(Int2Num(2), p)))
    /\ isTranslationOf(o.space, e.space)
    /\ \A l \in SamplePoints :
          mapToGlobal(e, l) = mapToGlobal(o, Pt(Sub(l.x, p), Sub(l.y, p)))
    /\ \A g \in GlobalProbes :
          LET l == mapToLocal(o, g)
          IN  ObbIncludesPoint(e, g) <=>
                  /\ Le(Neg(p), l.x) /\ Le(l.x, Add(o.size.width, p))
                  /\ Le(Neg(p), l.y) /\ Le(l.y, Add(o.size.height, p))

C16_ScalePoint ==
    result.op = "scalePoint" =>
        LET o == result.args[1]
            p == result.args[2]
            n == result.args[3]
            pw == IF o.size.width = Zero THEN One ELSE o.size.width
            ph == IF o.size.height = Zero THEN One ELSE o.size.height
            nw == IF n.size.width = Zero THEN One ELSE n.size.width
            nh == IF n.size.height = Zero THEN One ELSE n.size.height
        IN  /\ result.value = Pt(Mul(Div(p.x, pw), nw), Mul(Div(p.y, ph), nh))
            /\ IsFinite(result.value.x)
            /\ IsFinite(result.value.y)
            /\ \A m1, m2 \in PadSpaces :
                  scalePoint(Obb(o.size, m1), p, Obb(n.size, m2)) = result.value

C16_Witness ==
    /\ result.op = "scalePoint"
    /\ result.args[1].size = Size(Int2Num(2), Zero)
    /\ result.args[3].size = Size(Int2Num(4), Int2Num(2))
    /\ result.args[2] = P(3, -2)
    /\ result.value = P(6, -4)

SizeAssigned(obb) ==
    /\ Len(before) = Len(heap)
    /\ before[heap[obb].size] # heap[heap[obb].size]

\* C17 as stated: an Obb returned by translate, expand or shrink shares no
\* mutable state with the Obb it was derived from: when the size record of
\* one of the two is modified, the width, height and space of the other
\* are what they were.
C17_AsStated ==
    result.op \in {"translate", "expand", "shrink"} =>
        \A pair \in {<<result.args[1], result.value>>, <<result.value, result.args[1]>>} :
            SizeAssigned(pair[1]) =>
                ObbValue(heap, pair[2]) = ObbValue(before, pair[2])

\* The operations that return a new value.
NotInPlace ==
    {"Aabb.addPoint", "Aabb.union", "Aabb.intersection", "Aabb.union(...)",
     "Aabb.intersection(...)", "Aabb.round", "Aabb.translate", "Aabb.scale",
     "Aabb.expand", "Aabb.shrink", "Aabb.transform", "Aabb.clone",
     "Point.add", "Point.sub", "Point.mul", "Point.div", "Point.neg",
     "Point.scale", "Point.normalize", "Point.lerp", "Point.round"}

\* The operations that assign to their receiver or first argument.
InPlace ==
    {"Aabb.addPointInPlace", "Aabb.addXYInPlace", "Aabb.unionInPlace",
     "Aabb.intersectionInPlace",
     "Point.inPlace.add", "Point.inPlace.sub", "Point.inPlace.mul",
     "Point.inPlace.div", "Point.inPlace.neg", "Point.inPlace.scale",
     "Point.inPlace.normalize", "Point.inPlace.round"}

\* C18: an Aabb or Point operation that is not an in-place variant leaves
\* its receiver, its arguments and every other object as they were and
\* returns an object that did not exist before the call, so one distinct
\* from all of them; an in-place variant changes no object other than its
\* receiver (its first argument), also when the second argument is the
\* receiver itself.
C18_Frame ==
    /\ result.op \in NotInPlace =>
           /\ \A r \in 1..Len(before) : heap[r] = before[r]
           /\ result.value \in (Len(before) + 1)..Len(heap)
           /\ \A i \in 1..Len(result.args) : result.value # result.args[i]
    /\ result.op \in InPlace =>
           /\ Len(heap) = Len(before)
           /\ \A r \in 1..Len(before) : r # result.args[1] => heap[r] = before[r]

\* The point (3, 4) has (1/2, 1) added in place and is then added to itself
\* by Point.add: the sum is a new object and the point keeps (7/2, 5).
C18_Witness ==
    /\ Len(ops) = 2
    /\ ops[1] = [op |-> "Point.inPlace.add", arg |-> <<4, 3>>]
    /\ result = [op |-> "Point.add", args |-> <<4, 4>>, value |-> 5]
    /\ PointAt(before, 4) = Pt(Frac(7, 2), Int2Num(5))
    /\ PointAt(heap, 4) = Pt(Frac(7, 2), Int2Num(5))
    /\ PointAt(heap, 3) = Pt(Frac(1, 2), One)
    /\ PointAt(heap, 5) = P(7, 10)

\* The period of the angles an operation works on, and its normalize.
PeriodOf(op) ==
    IF op \in {"Radians.normalize", "Radians.add", "Radians.sub"}
    THEN Nearest(Mul(Int2Num(2), PI)) ELSE Int2Num(360)

NormalizeOf(op, v) ==
    IF op \in {"Radians.normalize", "Radians.add", "Radians.sub"}
    THEN RadiansNormalize(v) ELSE DegreesNormalize(v)

AngleOps ==
    {"Radians.normalize", "Radians.add", "Radians.sub",
     "Degrees.normalize", "Degrees.add", "Degrees.sub"}

\* C21 as stated: normalize(v) lies in [0, period), also for a negative v;
\* normalize is idempotent and gives the same for v + k * period; add and
\* sub return normalize(a + b) and normalize(a - b), so they lie in
\* [0, period) too.
C21_AsStated ==
    result.op \in AngleOps =>
        /\ Ge(result.value, Zero)
        /\ Lt(result.value, PeriodOf(result.op))
        /\ NormalizeOf(result.op, result.value) = result.value
        /\ result.op \in {"Radians.normalize", "Degrees.normalize"} =>
               \A k \in {-1, 1, 2} :
                   NormalizeOf(result.op,
                               Nearest(Add(result.args[1],
                                           Mul(Int2Num(k), PeriodOf(result.op)))))
                       = result.value

\* C22 as stated: round never shrinks the box (the rounded box includes the
\* original), moves each side by less than 10 ** -precision, and rounding
\* the rounded box again changes nothing.
C22_AsStated ==
    result.op = "round" =>
        LET a == result.args[1]
            precision == result.args[2]
            step == Div(One, Pow10(precision))
        IN  /\ includes(result.value, a)
            /\ Lt(Sub(a.minX, result.value.minX), step)
            /\ Lt(Sub(a.minY, result.value.minY), step)
            /\ Lt(Sub(result.value.maxX, a.maxX), step)
            /\ Lt(Sub(result.value.maxY, a.maxY), step)
            /\ AabbRound(result.value, precision) = result.value

\* C23: equals is reflexive, symmetric and transitive; two boxes that are
\* not valid are equal whatever their coordinates, a box that is not valid
\* is never equal to a valid one, and two valid boxes are equal exactly
\* when their four coordinates are.
C23_EqualsEquivalence ==
    result.op = "equals" =>
        LET a == result.args[1]
            b == result.args[2]
        IN  /\ AabbEquals(a, a)
            /\ result.value = AabbEquals(b, a)
            /\ \A c \in EqualBoxes : result.value /\ AabbEquals(b, c) => AabbEquals(a, c)
            /\ ~isValid(a) /\ ~isValid(b) => result.value
            /\ isValid(a) # isValid(b) => ~result.value
            /\ isValid(a) /\ isValid(b) => (result.value <=> a = b)

\* Aabb.empty() and the box (1, 0, -1, 0), both not valid and with
\* different coordinates, were compared and found equal.
C23_Witness ==
    /\ result.op = "equals"
    /\ result.args = <<AabbEmpty, fromLtrb(One, Zero, Int2Num(-1), Zero)>>
    /\ result.value = TRUE

PointInPlaceOps ==
    {"Point.inPlace.add", "Point.inPlace.sub", "Point.inPlace.mul", "Point.inPlace.div",
     "Point.inPlace.neg", "Point.inPlace.scale", "Point.inPlace.normalize",
     "Point.inPlace.round"}

\* What the variant of op that is not in place returns for the points at
\* args in the heap h.
PureOf(op, h, args) ==
    CASE op = "Point.inPlace.add" -> PointAdd(PointAt(h, args[1]), PointAt(h, args[2]))
      [] op = "Point.inPlace.sub" -> PointSub(PointAt(h, args[1]), PointAt(h, args[2]))
      [] op = "Point.inPlace.mul" -> PointMul(PointAt(h, args[1]), PointAt(h, args[2]))
      [] op = "Point.inPlace.div" -> PointDiv(PointAt(h, args[1]), PointAt(h, args[2]))
      [] op = "Point.inPlace.neg" -> PointNeg(PointAt(h, args[1]))
      [] op = "Point.inPlace.scale" ->
             PointScale(PointAt(h, args[1]), InPlaceFactors[1], InPlaceFactors[2])
      [] op = "Point.inPlace.normalize" -> normalize(PointAt(h, args[1]))
      [] op = "Point.inPlace.round" -> PointRound(PointAt(h, args[1]), DEFAULT_PRECISION)

\* After an in-place operation the first argument holds what the variant
\* that is not in place returns for the same inputs, and an argument that
\* is another object is as it was.
MirrorsPure ==
    /\ PointAt(heap, result.args[1]) = PureOf(result.op, before, result.args)
    /\ \A i \in 2..Len(result.args) :
           result.args[i] # result.args[1] => heap[result.args[i]] = before[result.args[i]]

\* C24 as stated: the in-place variant leaves in its first argument the
\* value the pure variant returns, changes no other argument, and returns
\* that first argument.
C24_AsStated ==
    result.op \in PointInPlaceOps => MirrorsPure /\ result.value = result.args[1]

\* C24: the in-place variant leaves in its first argument the value the
\* pure variant returns, changes no other argument, and returns nothing.
C24_InPlaceMirrorsPure ==
    result.op \in PointInPlaceOps => MirrorsPure /\ result.value = 0

\* The point (3, 4) was normalized in place to (3/5, 4/5) and then
\* multiplied in place by itself.
C24_Witness ==
    /\ Len(ops) = 2
    /\ ops[1].op = "Point.inPlace.normalize"
    /\ result = [op |-> "Point.inPlace.mul", args |-> <<4, 4>>, value |-> 0]
    /\ PointAt(before, 4) = Pt(Frac(3, 5), Frac(4, 5))
    /\ PointAt(heap, 4) = Pt(Frac(9, 25), Frac(16, 25))

----------------------------------------------------------------------------
(* Matrix.inverse and what is built on it, for a determinant of 0.         *)

\* The six coefficients of a matrix, in the order they are stored.
Coefficients(m) == <<m.a, m.b, m.c, m.d, m.e, m.f>>

\* The determinant a*d - b*c of the Matrix object is 0.
IsSingular(h, matrix) == Eq(det(h[matrix].data), Zero)

\* The objects that existed before the last call are as they were.
ReceiverUnchanged ==
    /\ Len(heap) >= Len(before)
    /\ \A r \in 1..Len(before) : heap[r] = before[r]

\* C25: Matrix.inverse() on a matrix of determinant 0 returns a new Matrix
\* whose six coefficients are all Infinity, -Infinity or NaN and leaves the
\* receiver as it was; Obb.mapToLocal and Obb.includesPoint on an Obb with
\* such a space return a Point and a boolean, and leave the Obb as it was.
C25_SingularInverse ==
    /\ (result.op = "inverse" /\ IsSingular(before, result.args[1])) =>
          /\ result.value \notin 1..Len(before)
          /\ result.value \in Refs(heap, "Matrix")
          /\ \A i \in 1..6 : ~IsFinite(Coefficients(heap[result.value].data)[i])
          /\ ReceiverUnchanged
    /\ (result.op = "mapToLocal" /\ IsSingular(before, before[result.args[1]].space)) =>
          /\ DOMAIN result.value = {"x", "y"}
          /\ DOMAIN result.value.x = {"n", "d"}
          /\ DOMAIN result.value.y = {"n", "d"}
          /\ ReceiverUnchanged
    /\ (result.op = "includesPoint" /\ IsSingular(before, before[result.args[1]].space)) =>
          /\ result.value \in BOOLEAN
          /\ ReceiverUnchanged

\* A matrix with two proportional columns and a translation was inverted,
\* and a coefficient of the inverse is NaN and another one infinite.
C25_Witness ==
    /\ result.op = "inverse"
    /\ IsSingular(before, result.args[1])
    /\ ~Eq(before[result.args[1]].data.e, Zero)
    /\ \E i \in 1..6 : IsNaN(Coefficients(heap[result.value].data)[i])
    /\ \E i \in 1..6 : Coefficients(heap[result.value].data)[i] \in {Infinity, NegInfinity}

----------------------------------------------------------------------------
(* Point.normalize and the vectors Point.isNonZero accepts.                *)

\* a and b point the same way: b is a times a positive number.
SameDirection(a, b) ==
    /\ Eq(Sub(Mul(a.x, b.y), Mul(a.y, b.x)), Zero)
    /\ Gt(Add(Mul(a.x, b.x), Mul(a.y, b.y)), Zero)

\* C26: Point.normalize and Point.inPlace.normalize of the zero vector give
\* components that are NaN or infinite; of every vector that Point.isNonZero
\* accepts they give a vector of length 1 that points the same way.
C26_AsStated ==
    result.op \in {"normalize", "inPlace.normalize"} =>
        /\ PointEquals(result.args[1], PointZero) =>
              ~IsFinite(result.value.x) /\ ~IsFinite(result.value.y)
        /\ isNonZero(result.args[1]) =>
              /\ Eq(length(result.value), One)
              /\ SameDirection(result.args[1], result.value)

----------------------------------------------------------------------------
(* Matrix.toCss: the text is read back, number by number.                  *)

\* The place of the first c in text, 0 when there is none.
IndexOf(text, c) ==
    IF \E i \in 1..Len(text) : text[i] = c
    THEN CHOOSE i \in 1..Len(text) : text[i] = c /\ \A j \in 1..(i - 1) : text[j] # c
    ELSE 0

RECURSIVE Split(_, _)
\* The pieces of text between the occurrences of c.
Split(text, c) ==
    IF IndexOf(text, c) = 0 THEN <<text>>
    ELSE <<SubSeq(text, 1, IndexOf(text, c) - 1)>> \o
             Split(SubSeq(text, IndexOf(text, c) + 1, Len(text)), c)

IsDigits(text) == text # <<>> /\ \A i \in 1..Len(text) : \E k \in 0..9 : text[i] = Digit(k)

RECURSIVE Whole(_)
\* The natural number written with the digits of text.
Whole(text) ==
    IF text = <<>> THEN 0
    ELSE 10 * Whole(SubSeq(text, 1, Len(text) - 1))
             + (CHOOSE k \in 0..9 : Digit(k) = text[Len(text)])

\* The number written as digits, or digits, a point and digits.
ReadUnsigned(text) ==
    IF IndexOf(text, ".") = 0 THEN Int2Num(Whole(text))
    ELSE LET fraction == SubSeq(text, IndexOf(text, ".") + 1, Len(text))
         IN  Add(Int2Num(Whole(SubSeq(text, 1, IndexOf(text, ".") - 1))),
                 Div(Int2Num(Whole(fraction)), Pow10(Len(fraction))))

IsUnsigned(text) ==
    IF IndexOf(text, ".") = 0 THEN IsDigits(text)
    ELSE /\ IsDigits(SubSeq(text, 1, IndexOf(text, ".") - 1))
         /\ IsDigits(SubSeq(text, IndexOf(text, ".") + 1, Len(text)))

\* What is read from a text that is not that of a number.
Unread == [n |-> 0, d |-> -1]

\* The number a CSS reader takes from the text of one argument.
ReadNumber(text) ==
    IF text = <<"N", "a", "N">> THEN NaN
    ELSE IF text = <<"I", "n", "f", "i", "n", "i", "t", "y">> THEN Infinity
    ELSE IF text = <<"-", "I", "n", "f", "i", "n", "i", "t", "y">> THEN NegInfinity
    ELSE IF text # <<>> /\ Head(text) = "-" /\ IsUnsigned(Tail(text))
         THEN Neg(ReadUnsigned(Tail(text)))
    ELSE IF IsUnsigned(text) THEN ReadUnsigned(text)
    ELSE Unread

\* The arguments of 'matrix(..., ...)': the texts between the commas, each
\* but the first after one space; <<>> when the text has another shape.
CssArguments(text) ==
    IF /\ Len(text) > 8
       /\ SubSeq(text, 1, 7) = <<"m", "a", "t", "r", "i", "x", "(">>
       /\ text[Len(text)] = ")"
    THEN LET pieces == Split(SubSeq(text, 8, Len(text) - 1), ",")
         IN  IF \A i \in 2..Len(pieces) : pieces[i] # <<>> /\ Head(pieces[i]) = " "
             THEN [i \in 1..Len(pieces) |->
                      ReadNumber(IF i = 1 THEN pieces[i] ELSE Tail(pieces[i]))]
             ELSE <<>>
    ELSE <<>>

\* C27: Matrix.toCss() is the text 'matrix(a, b, c, d, e, f)': read back, its
\* six arguments are the stored coefficients in the order a, b, c, d, e, f,
\* the ones with which transform computes x' = a*x + c*y + e and
\* y' = b*x + d*y + f; and the text of Matrix.translation({x: 60, y: 20}) is
\* 'matrix(1, 0, 0, 1, 60, 20)'.
C27_ToCss ==
    result.op = "toCss" =>
        LET m == result.args[1]
            read == CssArguments(result.value)
        IN  /\ read = <<m.a, m.b, m.c, m.d, m.e, m.f>>
            /\ \A p \in SamplePoints :
                  transform(m, p) =
                      Pt(Add(Add(Mul(read[1], p.x), Mul(read[3], p.y)), read[5]),
                         Add(Add(Mul(read[2], p.x), Mul(read[4], p.y)), read[6]))
            /\ m = translation(P(60, 20)) =>
                  result.value = <<"m", "a", "t", "r", "i", "x", "(", "1", ",", " ",
                                   "0", ",", " ", "0", ",", " ", "1", ",", " ",
                                   "6", "0", ",", " ", "2", "0", ")">>

\* The text of a matrix with a negative fraction among its coefficients
\* and b different from c was produced.
C27_Witness ==
    /\ result.op = "toCss"
    /\ result.args[1].b # result.args[1].c
    /\ result.args[1].a = One
    /\ result.args[1].b = Frac(3, 4)
    /\ SubSeq(result.value, 1, 15) =
           <<"m", "a", "t", "r", "i", "x", "(", "1", ",", " ", "0", ".", "7", "5", ",">>

----------------------------------------------------------------------------
(* Validity of the boxes that are built.                                   *)

\* The six coefficients of the matrix are numbers other than Infinity,
\* -Infinity and NaN.
IsFiniteMatrix(m) == \A i \in 1..6 : IsFinite(Coefficients(m)[i])

\* C28: from a valid box, every sequence of addPoint, addPointInPlace,
\* union and unionInPlace with valid or empty boxes, translate, round,
\* transform, expand by an amount >= 0 and scale by a factor >= 0 yields
\* only boxes with minX <= maxX and minY <= maxY.
C28_AsStated == isValid(box)

\* C28, amended: the same, for the sequences whose transforms are by
\* matrices of finite coefficients.
C28_ValidityKept ==
    (\A i \in 1..Len(ops) : ops[i].op = "transform" => IsFiniteMatrix(ops[i].arg))
        => isValid(box)

\* A box that has a width and a height was mirrored by a matrix of finite
\* coefficients and then rounded.
C28_Witness ==
    /\ Len(ops) >= 2
    /\ ops[1].op = "transform"
    /\ ops[1].arg = scaling(P(-2, 1))
    /\ ops[2].op = "round"
    /\ Lt(box.minX, box.maxX)
    /\ Lt(box.minY, box.maxY)

----------------------------------------------------------------------------
(* The global Aabb of an Obb as a bound for hit-testing.                   *)

\* p lies in aabb, boundaries included.
Inside(aabb, p) ==
    /\ Le(aabb.minX, p.x)
    /\ Le(p.x, aabb.maxX)
    /\ Le(aabb.minY, p.y)
    /\ Le(p.y, aabb.maxY)

\* C29: for an Obb whose space has an inverse, a global point that
\* includesPoint accepts lies inside obb.toAabb(), boundaries included; and
\* obb.toAabb() equals Aabb.fromLtwh(0, 0, width, height).transform(space).
C29_AsStated ==
    /\ (result.op = "includesPoint" /\ ~Eq(det(result.args[1].space), Zero)
            /\ result.value) =>
          Inside(toAabb(result.args[1]), result.args[2])
    /\ result.op = "toAabb" =>
          result.value =
              AabbTransform(fromLtwh(Zero, Zero, result.args[1].size.width,
                                     result.args[1].size.height),
                            result.args[1].space)

----------------------------------------------------------------------------
(* Aabb.scale as the uniform scaling of a box about an origin.             *)

\* origin + factor * (p - origin)
ScaledAbout(p, factor, origin) ==
    Pt(Add(origin.x, Mul(factor, Sub(p.x, origin.x))),
       Add(origin.y, Mul(factor, Sub(p.y, origin.y))))

\* |x|
Magnitude(x) == IF Lt(x, Zero) THEN Neg(x) ELSE x

\* C30: for a valid box a, a factor and an origin o, a.scale(factor, o) is
\* the bounding box of the four corners of a mapped to o + factor * (corner
\* - o); it equals a.transform(Matrix.identity().scaleAround(factor, o));
\* the box of o alone is left where it is; and the width and the height of
\* the result are |factor| times those of a.
C30_AsStated ==
    (result.op = "scale" /\ isValid(result.args[1])) =>
        LET a == result.args[1]
            factor == result.args[2]
            o == result.args[3]
        IN  /\ result.value =
                   fromPoints([i \in 1..4 |-> ScaledAbout(AabbCorners(a)[i], factor, o)])
            /\ result.value = AabbTransform(a, scaleAround(identity, Pt(factor, factor), o))
            /\ AabbScale(fromPoint(o), factor, o) = fromPoint(o)
            /\ AabbWidth(result.value) = Mul(Magnitude(factor), AabbWidth(a))
            /\ AabbHeight(result.value) = Mul(Magnitude(factor), AabbHeight(a))

====
